---- MODULE Spec2Model ----
(***************************************************************************)
(* Event store, replay fold, project aggregate and live broadcaster of the *)
(* yakataka task-tracking backend.                                         *)
(*                                                                         *)
(* The events table is the sequence of its rows in insertion order (the    *)
(* AUTOINCREMENT id of a row is its index).  JavaScript Maps are modelled  *)
(* as sequences of entries in insertion order, because the commands        *)
(* iterate them and sort them with a stable sort.  An absent (undefined)   *)
(* payload key is the value Undef for strings, NoId for ids and NoPosition *)
(* for numbers; JSON.stringify drops exactly those keys.  A multi-event    *)
(* command is one atomic step per append: the synchronous insert is the    *)
(* only point where another writer of the same database can interleave.    *)
(* A failure of the insert other than the UNIQUE violation (I/O failure)   *)
(* is outside the model.                                                   *)
(***************************************************************************)
EXTENDS Integers, Sequences, FiniteSets, TLC

VARIABLES table, clients, received, uuid, clock, handles, storeCall, budget, hist

vars == <<table, clients, received, uuid, clock, handles, storeCall, budget, hist>>

----------------------------------------------------------------------------
(* Bounds *)

MaxVersion == 3
MaxRawAppends == 3
MaxCalls == 2
MaxRaceCalls == 3
MaxFeedCalls == 2
MaxCreates == 4
MaxLogCalls == 2
MaxClock == 1
MaxRequests == 2
MaxQueryCalls == 1
MaxBoardCalls == 2

----------------------------------------------------------------------------
(* Values *)

Undef == "undefined"
NoId == 0
NoPosition == 0 - 1

ProjectId == "p1"
OtherProjectId == "p2"
WorkspaceId == "w1"
OtherWorkspaceId == "w2"

EmptyData ==
  [project_id |-> Undef, workspace_id |-> Undef, name |-> Undef,
   description |-> Undef, column_id |-> NoId, title |-> Undef,
   position |-> NoPosition, card_id |-> NoId, depends_on_card_id |-> NoId,
   source |-> Undef]

----------------------------------------------------------------------------
(* JavaScript Map, as a sequence of entries with an id field *)

RECURSIVE IndexOfFrom(_, _, _)
IndexOfFrom(m, k, i) ==
  IF i > Len(m) THEN 0
  ELSE IF m[i].id = k THEN i ELSE IndexOfFrom(m, k, i + 1)

MapHas(m, k) == IndexOfFrom(m, k, 1) # 0

MapGet(m, k) == m[IndexOfFrom(m, k, 1)]

MapSet(m, k, v) ==
  IF MapHas(m, k) THEN [m EXCEPT ![IndexOfFrom(m, k, 1)] = v]
  ELSE Append(m, v)

MapDelete(m, k) == SelectSeq(m, LAMBDA x : x.id # k)

\* includes that never finds the element
Includes_Never(s, x) == FALSE

Includes(s, x) == \E i \in DOMAIN s : s[i] = x

----------------------------------------------------------------------------
(* Replay engine *)

initialState ==
  [id |-> "", workspace_id |-> "", name |-> "", description |-> "",
   deleted |-> FALSE, columns |-> <<>>, cards |-> <<>>]

Coalesce(v, d) == IF v = Undef THEN d ELSE v

applyEvent(state, event) ==
  LET d == event.event_data
      t == event.event_type
  IN
  CASE t = "ProjectCreated" ->
         [state EXCEPT !.id = d.project_id, !.workspace_id = d.workspace_id,
                       !.name = d.name, !.description = d.description]
    [] t = "ProjectRenamed" -> [state EXCEPT !.name = d.name]
    [] t = "ProjectDescriptionUpdated" -> [state EXCEPT !.description = d.description]
    [] t = "ProjectDeleted" -> [state EXCEPT !.deleted = TRUE]
    [] t = "ColumnAdded" ->
         [state EXCEPT !.columns =
            MapSet(@, d.column_id,
                   [id |-> d.column_id, project_id |-> state.id,
                    name |-> d.name, position |-> d.position])]
    [] t = "ColumnRenamed" ->
         IF MapHas(state.columns, d.column_id)
         THEN LET col == MapGet(state.columns, d.column_id)
              IN [state EXCEPT !.columns =
                    MapSet(@, d.column_id, [col EXCEPT !.name = d.name])]
         ELSE state
    [] t = "ColumnMoved" ->
         IF MapHas(state.columns, d.column_id)
         THEN LET col == MapGet(state.columns, d.column_id)
              IN [state EXCEPT !.columns =
                    MapSet(@, d.column_id, [col EXCEPT !.position = d.position])]
         ELSE state
    [] t = "ColumnDeleted" ->
         [state EXCEPT !.columns = MapDelete(@, d.column_id)]
    [] t = "CardAdded" ->
         [state EXCEPT !.cards =
            MapSet(@, d.card_id,
                   [id |-> d.card_id, column_id |-> d.column_id,
                    title |-> d.title, description |-> d.description,
                    position |-> d.position, dependencies |-> <<>>])]
    [] t = "CardUpdated" ->
         IF MapHas(state.cards, d.card_id)
         THEN LET card == MapGet(state.cards, d.card_id)
              IN [state EXCEPT !.cards =
                    MapSet(@, d.card_id,
                           [card EXCEPT !.title = Coalesce(d.title, card.title),
                                        !.description =
                                           Coalesce(d.description, card.description)])]
         ELSE state
    [] t = "CardMoved" ->
         IF MapHas(state.cards, d.card_id)
         THEN LET card == MapGet(state.cards, d.card_id)
              IN [state EXCEPT !.cards =
                    MapSet(@, d.card_id,
                           [card EXCEPT !.column_id = d.column_id,
                                        !.position = d.position])]
         ELSE state
    [] t = "CardDeleted" ->
         [state EXCEPT !.cards = MapDelete(@, d.card_id)]
    [] t = "DependencyAdded" ->
         IF MapHas(state.cards, d.card_id)
            /\ ~Includes(MapGet(state.cards, d.card_id).dependencies,
                         d.depends_on_card_id)
         THEN LET card == MapGet(state.cards, d.card_id)
              IN [state EXCEPT !.cards =
                    MapSet(@, d.card_id,
                           [card EXCEPT !.dependencies =
                                           Append(@, d.depends_on_card_id)])]
         ELSE state
    [] t = "DependencyRemoved" ->
         IF MapHas(state.cards, d.card_id)
         THEN LET card == MapGet(state.cards, d.card_id)
              IN [state EXCEPT !.cards =
                    MapSet(@, d.card_id,
                           [card EXCEPT !.dependencies =
                              SelectSeq(@, LAMBDA x : x # d.depends_on_card_id)])]
         ELSE state
    [] OTHER -> state

\* a fold that looks at the clock reading of an event
RECURSIVE Fold_Timed(_, _)
Fold_Timed(state, events) ==
  IF events = <<>> THEN state
  ELSE Fold_Timed(IF Head(events).timestamp > 0 THEN state
                  ELSE applyEvent(state, Head(events)),
                  Tail(events))

\* a fold that applies the self-dependency rule of the command to the events
RECURSIVE Fold_Validating(_, _)
Fold_Validating(state, events) ==
  IF events = <<>> THEN state
  ELSE Fold_Validating(
          IF /\ Head(events).event_type = "DependencyAdded"
             /\ Head(events).event_data.card_id =
                   Head(events).event_data.depends_on_card_id
          THEN state
          ELSE applyEvent(state, Head(events)),
          Tail(events))

RECURSIVE Fold(_, _)
Fold(state, events) ==
  IF events = <<>> THEN state
  ELSE Fold(applyEvent(state, Head(events)), Tail(events))

----------------------------------------------------------------------------
(* Event store *)

\* the events table without its UNIQUE constraint
UniqueViolation_NoConstraint(t, event) == FALSE

\* a store that refuses every version that is not above the stored ones
UniqueViolation_Monotonic(t, event) ==
  \E i \in DOMAIN t :
     /\ t[i].aggregate_type = event.aggregate_type
     /\ t[i].aggregate_id = event.aggregate_id
     /\ t[i].version >= event.version

UniqueViolation(t, event) ==
  \E i \in DOMAIN t :
     /\ t[i].aggregate_type = event.aggregate_type
     /\ t[i].aggregate_id = event.aggregate_id
     /\ t[i].version = event.version

insertStmt(t, event, timestamp) ==
  Append(t, [aggregate_type |-> event.aggregate_type,
             aggregate_id |-> event.aggregate_id,
             event_type |-> event.event_type,
             event_data |-> event.event_data,
             version |-> event.version,
             timestamp |-> timestamp])

rowToEvent(t, i) ==
  [id |-> i,
   aggregate_type |-> t[i].aggregate_type,
   aggregate_id |-> t[i].aggregate_id,
   event_type |-> t[i].event_type,
   event_data |-> t[i].event_data,
   version |-> t[i].version,
   timestamp |-> t[i].timestamp]

RECURSIVE OrderByVersion(_, _)
OrderByVersion(t, idx) ==
  IF idx = {} THEN <<>>
  ELSE LET i == CHOOSE a \in idx :
                  \A b \in idx : \/ t[a].version < t[b].version
                                 \/ (t[a].version = t[b].version /\ a <= b)
       IN <<rowToEvent(t, i)>> \o OrderByVersion(t, idx \ {i})

getEvents(t, aggregateType, aggregateId) ==
  OrderByVersion(t, {i \in DOMAIN t : /\ t[i].aggregate_type = aggregateType
                                      /\ t[i].aggregate_id = aggregateId})

Max(S) == CHOOSE x \in S : \A y \in S : y <= x

\* ORDER BY timestamp: SQL leaves the order of rows of equal timestamp open;
\* tie is the order the engine gives them, by ascending or descending rowid
TieOrders == {"asc", "desc"}

Before(t, a, b, direction, tie) ==
  \/ (direction = "ASC" /\ t[a].timestamp < t[b].timestamp)
  \/ (direction = "DESC" /\ t[a].timestamp > t[b].timestamp)
  \/ (t[a].timestamp = t[b].timestamp /\ tie = "asc" /\ a <= b)
  \/ (t[a].timestamp = t[b].timestamp /\ tie = "desc" /\ a >= b)

RECURSIVE OrderByTimestamp(_, _, _, _)
OrderByTimestamp(t, idx, direction, tie) ==
  IF idx = {} THEN <<>>
  ELSE LET i == CHOOSE a \in idx : \A b \in idx : Before(t, a, b, direction, tie)
       IN <<rowToEvent(t, i)>> \o OrderByTimestamp(t, idx \ {i}, direction, tie)

\* limit?: number is <<>> when it is undefined and <<k>> when it is k
NoLimit == <<>>

\* limit ? events.slice(-limit) : events, where 0 is falsy and slice counts a
\* negative start from the end
SliceLast(events, limit) ==
  IF limit = NoLimit \/ limit[1] = 0 THEN events
  ELSE IF limit[1] > 0
  THEN SubSeq(events, Max({Len(events) - limit[1], 0}) + 1, Len(events))
  ELSE SubSeq(events, Max({Len(events) + limit[1], 0}) + 1, Len(events))

\* limit ? events.slice(0, limit) : events
SliceFirst(events, limit) ==
  IF limit = NoLimit \/ limit[1] = 0 THEN events
  ELSE IF limit[1] > 0
  THEN SubSeq(events, 1, Len(events) - Max({Len(events) - limit[1], 0}))
  ELSE SubSeq(events, 1, Max({Len(events) + limit[1], 0}))

\* getWorkspaceEvents that leaves out the projects that were deleted
getWorkspaceEvents_Live(t, workspaceId, limit, tie) ==
  LET created == {t[i].event_data.project_id :
                    i \in {j \in DOMAIN t :
                             /\ t[j].aggregate_type = "project"
                             /\ t[j].event_type = "ProjectCreated"
                             /\ t[j].event_data.workspace_id = workspaceId}}
      deleted == {t[i].aggregate_id :
                    i \in {j \in DOMAIN t :
                             /\ t[j].aggregate_type = "project"
                             /\ t[j].event_type = "ProjectDeleted"}}
      idx == {i \in DOMAIN t :
                \/ (t[i].aggregate_type = "workspace" /\ t[i].aggregate_id = workspaceId)
                \/ (/\ t[i].aggregate_type = "project"
                    /\ t[i].aggregate_id \in created \ deleted)}
  IN SliceLast(OrderByTimestamp(t, idx, "ASC", tie), limit)

getWorkspaceEvents(t, workspaceId, limit, tie) ==
  LET created == {t[i].event_data.project_id :
                    i \in {j \in DOMAIN t :
                             /\ t[j].aggregate_type = "project"
                             /\ t[j].event_type = "ProjectCreated"
                             /\ t[j].event_data.workspace_id = workspaceId}}
      idx == {i \in DOMAIN t :
                \/ (t[i].aggregate_type = "workspace" /\ t[i].aggregate_id = workspaceId)
                \/ (t[i].aggregate_type = "project" /\ t[i].aggregate_id \in created)}
  IN SliceLast(OrderByTimestamp(t, idx, "ASC", tie), limit)

getCardEvents(t, projectId, cardId, limit, tie) ==
  LET idx == {i \in DOMAIN t :
                /\ t[i].aggregate_type = "project"
                /\ t[i].aggregate_id = projectId
                /\ \/ t[i].event_data.card_id = cardId
                   \/ t[i].event_data.depends_on_card_id = cardId}
  IN SliceFirst(OrderByTimestamp(t, idx, "DESC", tie), limit)

getLatestVersion(t, aggregateType, aggregateId) ==
  LET vs == {t[i].version : i \in {j \in DOMAIN t :
                                     /\ t[j].aggregate_type = aggregateType
                                     /\ t[j].aggregate_id = aggregateId}}
  IN IF vs = {} THEN 0 ELSE Max(vs)

----------------------------------------------------------------------------
(* Live broadcaster *)

ClientIds == {"c1", "c2"}

Serialize(event) ==
  [type |-> event.event_type, data |-> event.event_data,
   timestamp |-> event.timestamp, version |-> event.version]

\* clients: the Map of the broadcaster; the entry of a client id that is not
\* in the Map is NoClient.  A client whose connection is gone but whose close
\* callback has not run yet makes res.write throw.  received: what was
\* written to each client's response.
NoClient == [registered |-> FALSE, projectId |-> "", writable |-> FALSE]

\* broadcast without the catch: the first failing write ends the delivery
broadcast_NoCatch(cl, rc, projectId, event) ==
  LET hit == {c \in DOMAIN cl : cl[c].registered /\ cl[c].projectId = projectId}
      failed == {c \in hit : ~cl[c].writable}
  IN IF failed # {} THEN [clients |-> cl, received |-> rc]
     ELSE [clients |-> cl,
           received |-> [c \in DOMAIN rc |->
                           IF c \in hit
                           THEN Append(rc[c], Serialize(event)) ELSE rc[c]]]

broadcast(cl, rc, projectId, event) ==
  LET hit == {c \in DOMAIN cl : cl[c].registered /\ cl[c].projectId = projectId}
      failed == {c \in hit : ~cl[c].writable}
  IN [clients |-> [c \in DOMAIN cl |-> IF c \in failed THEN NoClient ELSE cl[c]],
      received |-> [c \in DOMAIN rc |->
                      IF c \in hit \ failed
                      THEN Append(rc[c], Serialize(event)) ELSE rc[c]]]

addClient(cl, clientId, projectId) ==
  [cl EXCEPT ![clientId] =
     [registered |-> TRUE, projectId |-> projectId, writable |-> TRUE]]

removeClient(cl, clientId) == [cl EXCEPT ![clientId] = NoClient]

ConcurrencyConflict == "Concurrency conflict"

\* append that broadcasts the events of every stream type
append_AnyStream(S, event) ==
  LET timestamp == S.clock
  IN IF UniqueViolation(S.table, event)
     THEN [S |-> S, error |-> ConcurrencyConflict, saved |-> <<>>]
     ELSE LET savedEvent == [id |-> NoId,
                             aggregate_type |-> event.aggregate_type,
                             aggregate_id |-> event.aggregate_id,
                             event_type |-> event.event_type,
                             event_data |-> event.event_data,
                             version |-> event.version,
                             timestamp |-> timestamp]
              T == insertStmt(S.table, event, timestamp)
              B == broadcast(S.clients, S.received, event.aggregate_id, savedEvent)
          IN [S |-> [S EXCEPT !.table = T, !.clients = B.clients,
                              !.received = B.received],
              error |-> "", saved |-> <<savedEvent>>]

\* EventStore.append on the system S = [table, clients, received, clock]:
\* the new system and the outcome (the returned event, or the error thrown)
append(S, event) ==
  LET timestamp == S.clock
  IN IF UniqueViolation(S.table, event)
     THEN [S |-> S, error |-> ConcurrencyConflict, saved |-> <<>>]
     ELSE LET savedEvent == [id |-> NoId,
                             aggregate_type |-> event.aggregate_type,
                             aggregate_id |-> event.aggregate_id,
                             event_type |-> event.event_type,
                             event_data |-> event.event_data,
                             version |-> event.version,
                             timestamp |-> timestamp]
              T == insertStmt(S.table, event, timestamp)
              B == IF event.aggregate_type = "project"
                   THEN broadcast(S.clients, S.received, event.aggregate_id, savedEvent)
                   ELSE [clients |-> S.clients, received |-> S.received]
          IN [S |-> [S EXCEPT !.table = T, !.clients = B.clients,
                              !.received = B.received],
              error |-> "", saved |-> <<savedEvent>>]

Sys == [table |-> table, clients |-> clients, received |-> received,
        uuid |-> uuid, clock |-> clock]

SetSys(S) ==
  /\ table' = S.table
  /\ clients' = S.clients
  /\ received' = S.received
  /\ uuid' = S.uuid
  /\ clock' = S.clock

----------------------------------------------------------------------------
(* Project aggregate *)

ColumnNotFound == "Column not found"
CardNotFound == "Card not found"
DependencyCardNotFound == "Dependency card not found"
SelfDependency == "Card cannot depend on itself"

NoCmd ==
  [op |-> "none", columnId |-> NoId, cardId |-> NoId, dependsOnCardId |-> NoId,
   name |-> Undef, title |-> Undef, description |-> Undef,
   position |-> NoPosition, source |-> Undef, workspaceId |-> Undef]

\* new ProjectAggregate(projectId)
newAggregate(projectId) ==
  [projectId |-> projectId, state |-> initialState, version |-> 0,
   pending |-> <<>>, result |-> "none"]

load(t, H) ==
  LET events == getEvents(t, "project", H.projectId)
  IN [H EXCEPT !.state = Fold(H.state, events),
               !.version = IF events = <<>> THEN H.version
                           ELSE events[Len(events)].version]

loadProject(t, projectId) == load(t, newAggregate(projectId))

Throw(S, H, message) == [S |-> S, H |-> H, error |-> message]

\* appendEvent that swallows the error of the store
appendEvent_IgnoreConflict(S, H, eventType, eventData, source) ==
  LET version == H.version + 1
      finalEventData == IF source # Undef /\ source # ""
                        THEN [eventData EXCEPT !.source = source]
                        ELSE eventData
      event == [aggregate_type |-> "project", aggregate_id |-> H.projectId,
                event_type |-> eventType, event_data |-> finalEventData,
                version |-> version]
      r == append(S, event)
  IN [S |-> r.S,
      H |-> [H EXCEPT !.version = version,
                      !.state = applyEvent(H.state, event)],
      error |-> ""]

\* appendEvent that does not fold the appended event into the state
appendEvent_NoFold(S, H, eventType, eventData, source) ==
  LET version == H.version + 1
      finalEventData == IF source # Undef /\ source # ""
                        THEN [eventData EXCEPT !.source = source]
                        ELSE eventData
      event == [aggregate_type |-> "project", aggregate_id |-> H.projectId,
                event_type |-> eventType, event_data |-> finalEventData,
                version |-> version]
      r == append(S, event)
  IN [S |-> r.S, H |-> [H EXCEPT !.version = version], error |-> r.error]

\* appendEvent that folds the event only when it carries no source tag
appendEvent_TaggedNoFold(S, H, eventType, eventData, source) ==
  LET version == H.version + 1
      finalEventData == IF source # Undef /\ source # ""
                        THEN [eventData EXCEPT !.source = source]
                        ELSE eventData
      event == [aggregate_type |-> "project", aggregate_id |-> H.projectId,
                event_type |-> eventType, event_data |-> finalEventData,
                version |-> version]
      r == append(S, event)
  IN IF r.error # ""
     THEN [S |-> r.S, H |-> [H EXCEPT !.version = version], error |-> r.error]
     ELSE [S |-> r.S,
           H |-> [H EXCEPT !.version = version,
                           !.state = IF finalEventData.source = Undef
                                     THEN applyEvent(H.state, event)
                                     ELSE H.state],
           error |-> ""]

appendEvent(S, H, eventType, eventData, source) ==
  LET version == H.version + 1
      finalEventData == IF source # Undef /\ source # ""
                        THEN [eventData EXCEPT !.source = source]
                        ELSE eventData
      event == [aggregate_type |-> "project", aggregate_id |-> H.projectId,
                event_type |-> eventType, event_data |-> finalEventData,
                version |-> version]
      r == append(S, event)
  IN IF r.error # ""
     THEN [S |-> r.S, H |-> [H EXCEPT !.version = version], error |-> r.error]
     ELSE [S |-> r.S,
           H |-> [H EXCEPT !.version = version,
                           !.state = applyEvent(H.state, event)],
           error |-> ""]

CardsInColumn(state, columnId) ==
  SelectSeq(state.cards, LAMBDA c : c.column_id = columnId)

DefaultPosition(position, default) ==
  IF position = NoPosition THEN default ELSE position

rename(S, H, c) ==
  appendEvent(S, H, "ProjectRenamed", [EmptyData EXCEPT !.name = c.name], Undef)

updateDescription(S, H, c) ==
  appendEvent(S, H, "ProjectDescriptionUpdated",
              [EmptyData EXCEPT !.description = c.description], Undef)

\* delete that removes the rows of the project
delete_Hard(S, H, c) ==
  [S |-> [S EXCEPT !.table =
            SelectSeq(@, LAMBDA row : ~(/\ row.aggregate_type = "project"
                                        /\ row.aggregate_id = H.projectId))],
   H |-> [H EXCEPT !.state.deleted = TRUE],
   error |-> ""]

delete(S, H, c) == appendEvent(S, H, "ProjectDeleted", EmptyData, Undef)

addColumn(S, H, c) ==
  LET columnId == S.uuid + 1
      pos == DefaultPosition(c.position, Len(H.state.columns))
  IN appendEvent([S EXCEPT !.uuid = columnId], H, "ColumnAdded",
                 [EmptyData EXCEPT !.column_id = columnId, !.name = c.name,
                                   !.position = pos], Undef)

renameColumn(S, H, c) ==
  IF ~MapHas(H.state.columns, c.columnId) THEN Throw(S, H, ColumnNotFound)
  ELSE appendEvent(S, H, "ColumnRenamed",
                   [EmptyData EXCEPT !.column_id = c.columnId, !.name = c.name],
                   Undef)

\* moveColumn that keeps the position within the board
moveColumn_Clamped(S, H, c) ==
  IF ~MapHas(H.state.columns, c.columnId) THEN Throw(S, H, ColumnNotFound)
  ELSE appendEvent(S, H, "ColumnMoved",
                   [EmptyData EXCEPT !.column_id = c.columnId,
                                     !.position =
                                        IF c.position < Len(H.state.columns)
                                        THEN c.position
                                        ELSE Len(H.state.columns) - 1], Undef)

moveColumn(S, H, c) ==
  IF ~MapHas(H.state.columns, c.columnId) THEN Throw(S, H, ColumnNotFound)
  ELSE appendEvent(S, H, "ColumnMoved",
                   [EmptyData EXCEPT !.column_id = c.columnId,
                                     !.position = c.position], Undef)

\* addCard that looks the column up only after the append
addCard_LateCheck(S, H, c) ==
  LET cardId == S.uuid + 1
      r == appendEvent([S EXCEPT !.uuid = cardId], H, "CardAdded",
                       [EmptyData EXCEPT !.card_id = cardId,
                                         !.column_id = c.columnId,
                                         !.title = c.title,
                                         !.description = c.description,
                                         !.position = 0], c.source)
  IN IF ~MapHas(H.state.columns, c.columnId)
     THEN [S |-> r.S, H |-> r.H, error |-> ColumnNotFound]
     ELSE r

addCard(S, H, c) ==
  IF ~MapHas(H.state.columns, c.columnId) THEN Throw(S, H, ColumnNotFound)
  ELSE LET cardId == S.uuid + 1
           pos == DefaultPosition(c.position,
                                  Len(CardsInColumn(H.state, c.columnId)))
       IN appendEvent([S EXCEPT !.uuid = cardId], H, "CardAdded",
                      [EmptyData EXCEPT !.card_id = cardId,
                                        !.column_id = c.columnId,
                                        !.title = c.title,
                                        !.description = c.description,
                                        !.position = pos], c.source)

\* updateCard that writes an empty string for a field it is not given
updateCard_Overwrite(S, H, c) ==
  IF ~MapHas(H.state.cards, c.cardId) THEN Throw(S, H, CardNotFound)
  ELSE appendEvent(S, H, "CardUpdated",
                   [EmptyData EXCEPT !.card_id = c.cardId,
                                     !.title = Coalesce(c.title, ""),
                                     !.description = Coalesce(c.description, "")],
                   c.source)

updateCard(S, H, c) ==
  IF ~MapHas(H.state.cards, c.cardId) THEN Throw(S, H, CardNotFound)
  ELSE appendEvent(S, H, "CardUpdated",
                   [EmptyData EXCEPT !.card_id = c.cardId, !.title = c.title,
                                     !.description = c.description], c.source)

\* moveCard that counts the moving card among the cards of the destination
moveCard_CountSelf(S, H, c) ==
  IF ~MapHas(H.state.cards, c.cardId) THEN Throw(S, H, CardNotFound)
  ELSE IF ~MapHas(H.state.columns, c.columnId) THEN Throw(S, H, ColumnNotFound)
  ELSE appendEvent(S, H, "CardMoved",
                   [EmptyData EXCEPT !.card_id = c.cardId,
                                     !.column_id = c.columnId,
                                     !.position =
                                        DefaultPosition(c.position,
                                           Len(CardsInColumn(H.state, c.columnId)))],
                   c.source)

moveCard(S, H, c) ==
  IF ~MapHas(H.state.cards, c.cardId) THEN Throw(S, H, CardNotFound)
  ELSE IF ~MapHas(H.state.columns, c.columnId) THEN Throw(S, H, ColumnNotFound)
  ELSE LET cardsInColumn ==
             SelectSeq(H.state.cards,
                       LAMBDA x : x.column_id = c.columnId /\ x.id # c.cardId)
           pos == DefaultPosition(c.position, Len(cardsInColumn))
       IN appendEvent(S, H, "CardMoved",
                      [EmptyData EXCEPT !.card_id = c.cardId,
                                        !.column_id = c.columnId,
                                        !.position = pos], c.source)

\* addDependency without the self-dependency check
addDependency_NoSelfCheck(S, H, c) ==
  IF ~MapHas(H.state.cards, c.cardId) THEN Throw(S, H, CardNotFound)
  ELSE IF ~MapHas(H.state.cards, c.dependsOnCardId)
  THEN Throw(S, H, DependencyCardNotFound)
  ELSE appendEvent(S, H, "DependencyAdded",
                   [EmptyData EXCEPT !.card_id = c.cardId,
                                     !.depends_on_card_id = c.dependsOnCardId],
                   c.source)

addDependency(S, H, c) ==
  IF ~MapHas(H.state.cards, c.cardId) THEN Throw(S, H, CardNotFound)
  ELSE IF ~MapHas(H.state.cards, c.dependsOnCardId)
  THEN Throw(S, H, DependencyCardNotFound)
  ELSE IF c.cardId = c.dependsOnCardId THEN Throw(S, H, SelfDependency)
  ELSE appendEvent(S, H, "DependencyAdded",
                   [EmptyData EXCEPT !.card_id = c.cardId,
                                     !.depends_on_card_id = c.dependsOnCardId],
                   c.source)

\* removeDependency that refuses a dependency the card does not have
removeDependency_Checked(S, H, c) ==
  IF ~MapHas(H.state.cards, c.cardId) THEN Throw(S, H, CardNotFound)
  ELSE IF ~Includes(MapGet(H.state.cards, c.cardId).dependencies, c.dependsOnCardId)
  THEN Throw(S, H, DependencyCardNotFound)
  ELSE appendEvent(S, H, "DependencyRemoved",
                   [EmptyData EXCEPT !.card_id = c.cardId,
                                     !.depends_on_card_id = c.dependsOnCardId],
                   c.source)

removeDependency(S, H, c) ==
  IF ~MapHas(H.state.cards, c.cardId) THEN Throw(S, H, CardNotFound)
  ELSE appendEvent(S, H, "DependencyRemoved",
                   [EmptyData EXCEPT !.card_id = c.cardId,
                                     !.depends_on_card_id = c.dependsOnCardId],
                   c.source)

\* The steps of the multi-event commands that are not commands themselves
appendProjectCreated(S, H, c) ==
  appendEvent(S, H, "ProjectCreated",
              [EmptyData EXCEPT !.project_id = H.projectId,
                                !.workspace_id = c.workspaceId,
                                !.name = c.name,
                                !.description = c.description], Undef)

appendDefaultColumn(S, H, c) ==
  LET columnId == S.uuid + 1
  IN appendEvent([S EXCEPT !.uuid = columnId], H, "ColumnAdded",
                 [EmptyData EXCEPT !.column_id = columnId, !.name = c.name,
                                   !.position = c.position], Undef)

appendColumnDeleted(S, H, c) ==
  appendEvent(S, H, "ColumnDeleted", [EmptyData EXCEPT !.column_id = c.columnId],
              Undef)

appendCardDeleted(S, H, c) ==
  appendEvent(S, H, "CardDeleted", [EmptyData EXCEPT !.card_id = c.cardId],
              c.source)

defaultColumns == <<"To Do", "In Progress", "Done">>

\* [...columns.values()].sort((a, b) => a.position - b.position)[0]: the sort
\* is stable, so of the columns with the lowest position the first inserted
firstColumn(columns) ==
  LET i == CHOOSE a \in DOMAIN columns :
              \A b \in DOMAIN columns :
                 \/ columns[a].position < columns[b].position
                 \/ (columns[a].position = columns[b].position /\ a <= b)
  IN columns[i]

Map(s, Op(_)) == [i \in DOMAIN s |-> Op(s[i])]

\* The sequence of appending steps a command makes, each computed against the
\* state at the time it runs; the loops iterate the Map of the state at the
\* start of the command
\* create that numbers the default columns from 1
create_OneBased(state, c) ==
  <<[c EXCEPT !.op = "appendProjectCreated"]>> \o
  [i \in DOMAIN defaultColumns |->
     [NoCmd EXCEPT !.op = "appendDefaultColumn", !.name = defaultColumns[i],
                   !.position = i]]

create(state, c) ==
  <<[c EXCEPT !.op = "appendProjectCreated"]>> \o
  [i \in DOMAIN defaultColumns |->
     [NoCmd EXCEPT !.op = "appendDefaultColumn", !.name = defaultColumns[i],
                   !.position = i - 1]]

\* deleteColumn that computes every destination position against the state
\* at the start of the command
deleteColumn_Precomputed(state, c) ==
  LET first == firstColumn(state.columns)
      moves == IF first.id # c.columnId
               THEN Map(CardsInColumn(state, c.columnId),
                        LAMBDA card :
                           [NoCmd EXCEPT !.op = "moveCard", !.cardId = card.id,
                                         !.columnId = first.id,
                                         !.position =
                                            Len(CardsInColumn(state, first.id))])
               ELSE <<>>
  IN moves \o <<[c EXCEPT !.op = "appendColumnDeleted"]>>

\* deleteColumn that moves the cards of the first column to the next one
deleteColumn_Rehome(state, c) ==
  LET others == SelectSeq(state.columns, LAMBDA col : col.id # c.columnId)
      moves == IF others # <<>>
               THEN Map(CardsInColumn(state, c.columnId),
                        LAMBDA card : [NoCmd EXCEPT !.op = "moveCard",
                                                    !.cardId = card.id,
                                                    !.columnId = firstColumn(others).id])
               ELSE <<>>
  IN moves \o <<[c EXCEPT !.op = "appendColumnDeleted"]>>

deleteColumn(state, c) ==
  LET first == firstColumn(state.columns)
      moves == IF first.id # c.columnId
               THEN Map(CardsInColumn(state, c.columnId),
                        LAMBDA card : [NoCmd EXCEPT !.op = "moveCard",
                                                    !.cardId = card.id,
                                                    !.columnId = first.id])
               ELSE <<>>
  IN moves \o <<[c EXCEPT !.op = "appendColumnDeleted"]>>

\* deleteCard that does not remove the dependencies on the card
deleteCard_NoCascade(state, c) == <<[c EXCEPT !.op = "appendCardDeleted"]>>

\* deleteCard that stops the cascade after the first dependent
deleteCard_FirstDependent(state, c) ==
  LET dependents == SelectSeq(state.cards,
                              LAMBDA card : Includes(card.dependencies, c.cardId))
  IN Map(SubSeq(dependents, 1, IF dependents = <<>> THEN 0 ELSE 1),
         LAMBDA card : [NoCmd EXCEPT !.op = "removeDependency",
                                     !.cardId = card.id,
                                     !.dependsOnCardId = c.cardId,
                                     !.source = c.source]) \o
     <<[c EXCEPT !.op = "appendCardDeleted"]>>

deleteCard(state, c) ==
  Map(SelectSeq(state.cards, LAMBDA card : Includes(card.dependencies, c.cardId)),
      LAMBDA card : [NoCmd EXCEPT !.op = "removeDependency", !.cardId = card.id,
                                  !.dependsOnCardId = c.cardId,
                                  !.source = c.source]) \o
  <<[c EXCEPT !.op = "appendCardDeleted"]>>

Validate(state, c) ==
  CASE c.op = "deleteColumn" ->
         IF MapHas(state.columns, c.columnId) THEN "" ELSE ColumnNotFound
    [] c.op = "deleteCard" ->
         IF MapHas(state.cards, c.cardId) THEN "" ELSE CardNotFound
    [] OTHER -> ""

Steps(state, c) ==
  CASE c.op = "create" -> create(state, c)
    [] c.op = "deleteColumn" -> deleteColumn(state, c)
    [] c.op = "deleteCard" -> deleteCard(state, c)
    [] OTHER -> <<c>>

Exec(S, H, c) ==
  CASE c.op = "rename" -> rename(S, H, c)
    [] c.op = "updateDescription" -> updateDescription(S, H, c)
    [] c.op = "delete" -> delete(S, H, c)
    [] c.op = "addColumn" -> addColumn(S, H, c)
    [] c.op = "renameColumn" -> renameColumn(S, H, c)
    [] c.op = "moveColumn" -> moveColumn(S, H, c)
    [] c.op = "addCard" -> addCard(S, H, c)
    [] c.op = "updateCard" -> updateCard(S, H, c)
    [] c.op = "moveCard" -> moveCard(S, H, c)
    [] c.op = "addDependency" -> addDependency(S, H, c)
    [] c.op = "removeDependency" -> removeDependency(S, H, c)
    [] c.op = "appendProjectCreated" -> appendProjectCreated(S, H, c)
    [] c.op = "appendDefaultColumn" -> appendDefaultColumn(S, H, c)
    [] c.op = "appendColumnDeleted" -> appendColumnDeleted(S, H, c)
    [] c.op = "appendCardDeleted" -> appendCardDeleted(S, H, c)

\* One appending step of the running command; an error thrown by the step
\* propagates out of the command, which makes no further step
\* a command that goes on with its remaining steps after an error
Settle_Resume(r) ==
  [S |-> r.S,
   H |-> [r.H EXCEPT !.result = IF r.error # "" THEN r.error
                                ELSE IF r.H.pending = <<>> THEN "ok"
                                ELSE "running"]]

Settle(r) ==
  IF r.error # ""
  THEN [S |-> r.S, H |-> [r.H EXCEPT !.pending = <<>>, !.result = r.error]]
  ELSE [S |-> r.S,
        H |-> [r.H EXCEPT !.result = IF r.H.pending = <<>> THEN "ok"
                                     ELSE "running"]]

RunStep(S, H) ==
  Settle(Exec(S, [H EXCEPT !.pending = Tail(@)], Head(H.pending)))

Invoke(S, H, c) ==
  IF Validate(H.state, c) # ""
  THEN [S |-> S, H |-> [H EXCEPT !.result = Validate(H.state, c)]]
  ELSE RunStep(S, [H EXCEPT !.pending = Steps(H.state, c)])

RECURSIVE Complete(_)
Complete(w) == IF w.H.pending = <<>> THEN w ELSE Complete(RunStep(w.S, w.H))

RECURSIVE RunAll(_, _)
RunAll(w, cmds) ==
  IF cmds = <<>> THEN w
  ELSE RunAll(Complete(Invoke(w.S, w.H, Head(cmds))), Tail(cmds))

----------------------------------------------------------------------------
(* History of each handle, kept for stating properties: the version it was
   loaded at, whether another handle has appended to its stream since, and,
   of the last command that reached an append, the command, the state it
   started from and the events it has appended; folded is the version of
   the last event the handle has folded into its state, by loading or after
   storing it *)

NoHistory(version) ==
  [loadedAt |-> version, folded |-> version, foreign |-> FALSE, cmd |-> NoCmd,
   pre |-> initialState, emitted |-> <<>>]

Emitted(t1, t2) ==
  [i \in 1..(Len(t2) - Len(t1)) |->
     [event_type |-> t2[Len(t1) + i].event_type,
      event_data |-> t2[Len(t1) + i].event_data]]

Effect(h, r, c, begin) ==
  /\ SetSys(r.S)
  /\ handles' = [handles EXCEPT ![h] = r.H]
  /\ hist' = [k \in DOMAIN hist |->
                IF k # h
                THEN [hist[k] EXCEPT
                        !.foreign = @ \/ Len(r.S.table) > Len(table)]
                ELSE IF r.H.version = handles[h].version THEN hist[k]
                ELSE [hist[k] EXCEPT
                        !.folded = IF Len(r.S.table) > Len(table)
                                   THEN r.S.table[Len(r.S.table)].version ELSE @,
                        !.cmd = IF begin THEN c ELSE @,
                        !.pre = IF begin THEN handles[h].state ELSE @,
                        !.emitted = (IF begin THEN <<>> ELSE @) \o
                                    Emitted(table, r.S.table)]]
  /\ UNCHANGED storeCall

----------------------------------------------------------------------------
(* Operations on a handle *)

Call(h, c) ==
  /\ handles[h].pending = <<>>
  /\ budget > 0
  /\ budget' = budget - 1
  /\ Effect(h, Invoke(Sys, handles[h], c), c, TRUE)

\* the next append of a multi-event command
Continue(h) ==
  /\ handles[h].pending # <<>>
  /\ Effect(h, RunStep(Sys, handles[h]), NoCmd, FALSE)
  /\ UNCHANGED budget

\* loadProject: a new aggregate replaces the handle
Load(h) ==
  /\ handles[h].pending = <<>>
  /\ handles' = [handles EXCEPT ![h] = loadProject(table, ProjectId)]
  /\ hist' = [hist EXCEPT ![h] = NoHistory(handles'[h].version)]
  /\ UNCHANGED <<table, clients, received, uuid, clock, storeCall, budget>>

\* createProject makes a new aggregate for a new id: create is called on a
\* handle that holds no project
Create(h, name, description) ==
  /\ handles[h].state.id = ""
  /\ Call(h, [NoCmd EXCEPT !.op = "create", !.workspaceId = WorkspaceId,
                           !.name = name, !.description = description])

Rename(h, name) == Call(h, [NoCmd EXCEPT !.op = "rename", !.name = name])

UpdateDescription(h, description) ==
  Call(h, [NoCmd EXCEPT !.op = "updateDescription", !.description = description])

Delete(h) == Call(h, [NoCmd EXCEPT !.op = "delete"])

AddColumn(h, name, position) ==
  Call(h, [NoCmd EXCEPT !.op = "addColumn", !.name = name, !.position = position])

RenameColumn(h, columnId, name) ==
  Call(h, [NoCmd EXCEPT !.op = "renameColumn", !.columnId = columnId,
                        !.name = name])

MoveColumn(h, columnId, position) ==
  Call(h, [NoCmd EXCEPT !.op = "moveColumn", !.columnId = columnId,
                        !.position = position])

DeleteColumn(h, columnId) ==
  Call(h, [NoCmd EXCEPT !.op = "deleteColumn", !.columnId = columnId])

AddCard(h, columnId, title, description, position, source) ==
  Call(h, [NoCmd EXCEPT !.op = "addCard", !.columnId = columnId,
                        !.title = title, !.description = description,
                        !.position = position, !.source = source])

UpdateCard(h, cardId, title, description, source) ==
  Call(h, [NoCmd EXCEPT !.op = "updateCard", !.cardId = cardId,
                        !.title = title, !.description = description,
                        !.source = source])

MoveCard(h, cardId, columnId, position, source) ==
  Call(h, [NoCmd EXCEPT !.op = "moveCard", !.cardId = cardId,
                        !.columnId = columnId, !.position = position,
                        !.source = source])

DeleteCard(h, cardId, source) ==
  Call(h, [NoCmd EXCEPT !.op = "deleteCard", !.cardId = cardId,
                        !.source = source])

AddDependency(h, cardId, dependsOnCardId, source) ==
  Call(h, [NoCmd EXCEPT !.op = "addDependency", !.cardId = cardId,
                        !.dependsOnCardId = dependsOnCardId, !.source = source])

RemoveDependency(h, cardId, dependsOnCardId, source) ==
  Call(h, [NoCmd EXCEPT !.op = "removeDependency", !.cardId = cardId,
                        !.dependsOnCardId = dependsOnCardId, !.source = source])

----------------------------------------------------------------------------
(* Inputs: the ids a caller of handle h can name are the ids of the columns
   and cards of the projection it holds, and one id that names nothing *)

UnknownId == uuid + 1

ColumnIds(h) ==
  {handles[h].state.columns[i].id : i \in DOMAIN handles[h].state.columns}
  \cup {UnknownId}

CardIds(h) ==
  {handles[h].state.cards[i].id : i \in DOMAIN handles[h].state.cards}
  \cup {UnknownId}

----------------------------------------------------------------------------
(* Initial states: the store after a sequence of commands run to completion
   on one handle, and every handle newly loaded *)

System0 ==
  [table |-> <<>>, clients |-> [c \in ClientIds |-> NoClient],
   received |-> [c \in ClientIds |-> <<>>],
   uuid |-> 0, clock |-> 0]

CmdCreate ==
  [NoCmd EXCEPT !.op = "create", !.workspaceId = WorkspaceId, !.name = "a",
                !.description = ""]

CmdAddCard(columnId) ==
  [NoCmd EXCEPT !.op = "addCard", !.columnId = columnId, !.title = "t",
                !.description = ""]

CmdAddDependency(cardId, dependsOnCardId) ==
  [NoCmd EXCEPT !.op = "addDependency", !.cardId = cardId,
                !.dependsOnCardId = dependsOnCardId]

\* create hands out the column ids 1, 2, 3; the cards get 4, 5, 6
SeedEmpty == [S |-> System0, H |-> newAggregate(ProjectId)]
SeedCreated == RunAll(SeedEmpty, <<CmdCreate>>)
SeedCards == RunAll(SeedCreated, <<CmdAddCard(1), CmdAddCard(2), CmdAddCard(2)>>)
SeedDependencies ==
  RunAll(SeedCards, <<CmdAddDependency(5, 4), CmdAddDependency(6, 4)>>)
SeedChain ==
  RunAll(SeedCards, <<CmdAddDependency(5, 4), CmdAddDependency(6, 5)>>)
SeedPair ==
  RunAll(SeedCreated, <<CmdAddCard(1), CmdAddCard(2), CmdAddDependency(5, 4)>>)

NoStoreCall == [event |-> <<>>, error |-> "", saved |-> <<>>]

InitWith(w, hs, calls) ==
  /\ table = w.S.table
  /\ clients = w.S.clients
  /\ received = w.S.received
  /\ uuid = w.S.uuid
  /\ clock = w.S.clock
  /\ handles = [h \in hs |-> loadProject(w.S.table, ProjectId)]
  /\ hist = [h \in hs |-> NoHistory(w.H.version)]
  /\ storeCall = NoStoreCall
  /\ budget = calls

----------------------------------------------------------------------------
(* Cards, dependencies and cascades on one handle *)

InitCards ==
  \E seed \in {SeedDependencies, SeedChain} :
     InitWith(seed, {"h1"}, MaxCalls)

CardsContinue == \E h \in DOMAIN handles : Continue(h)

CardsAddCard ==
  \E h \in DOMAIN handles : \E columnId \in ColumnIds(h) :
     AddCard(h, columnId, "t", "", NoPosition, Undef)

CardsMoveCard ==
  \E h \in DOMAIN handles : \E cardId \in CardIds(h), columnId \in ColumnIds(h) :
     MoveCard(h, cardId, columnId, NoPosition, Undef)

CardsDeleteCard ==
  \E h \in DOMAIN handles : \E cardId \in CardIds(h) : DeleteCard(h, cardId, Undef)

CardsAddDependency ==
  \E h \in DOMAIN handles : \E cardId \in CardIds(h), dependsOnCardId \in CardIds(h) :
     AddDependency(h, cardId, dependsOnCardId, Undef)

CardsRemoveDependency ==
  \E h \in DOMAIN handles : \E cardId \in CardIds(h), dependsOnCardId \in CardIds(h) :
     RemoveDependency(h, cardId, dependsOnCardId, Undef)

CardsMoveColumn ==
  \E h \in DOMAIN handles : \E columnId \in ColumnIds(h), position \in {0, 3} :
     MoveColumn(h, columnId, position)

CardsDeleteColumn ==
  \E h \in DOMAIN handles : \E columnId \in ColumnIds(h) : DeleteColumn(h, columnId)

NextCards ==
  \/ CardsContinue
  \/ CardsAddCard
  \/ CardsMoveCard
  \/ CardsDeleteCard
  \/ CardsAddDependency
  \/ CardsRemoveDependency
  \/ CardsMoveColumn
  \/ CardsDeleteColumn

SpecCards == InitCards /\ [][NextCards]_vars

----------------------------------------------------------------------------
(* The event store called directly, with listeners of the broadcaster *)

RawData(aggregateType, aggregateId) ==
  IF aggregateType = "workspace"
  THEN [EmptyData EXCEPT !.workspace_id = aggregateId]
  ELSE [EmptyData EXCEPT !.name = "a"]

RawEvent(aggregateType, aggregateId, version) ==
  [aggregate_type |-> aggregateType, aggregate_id |-> aggregateId,
   event_type |-> IF aggregateType = "workspace" THEN "WorkspaceCreated"
                  ELSE "ProjectRenamed",
   event_data |-> RawData(aggregateType, aggregateId),
   version |-> version]

Streams ==
  {<<"workspace", WorkspaceId>>, <<"project", ProjectId>>}

RawEvents == {RawEvent(st[1], st[2], v) : st \in Streams, v \in 1..MaxVersion}

StoreAppend(event) ==
  /\ budget > 0
  /\ budget' = budget - 1
  /\ \E r \in {append(Sys, event)} :
        /\ SetSys(r.S)
        /\ storeCall' = [event |-> <<event>>, error |-> r.error, saved |-> r.saved]
  /\ UNCHANGED <<handles, hist>>

\* a registration that replays the stored events of the project
AddClient_Replay(clientId, projectId) ==
  /\ ~clients[clientId].registered
  /\ clients' = addClient(clients, clientId, projectId)
  /\ received' = [received EXCEPT ![clientId] =
                    [i \in DOMAIN getEvents(table, "project", projectId) |->
                       Serialize(getEvents(table, "project", projectId)[i])]]
  /\ UNCHANGED <<table, uuid, clock, handles, storeCall, budget, hist>>

\* GET /projects/:projectId/events/stream: a new response is registered
AddClient(clientId, projectId) ==
  /\ ~clients[clientId].registered
  /\ clients' = addClient(clients, clientId, projectId)
  /\ received' = [received EXCEPT ![clientId] = <<>>]
  /\ UNCHANGED <<table, uuid, clock, handles, storeCall, budget, hist>>

\* the close callback of the request or of the response
RemoveClient(clientId) ==
  /\ clients[clientId].registered
  /\ clients' = removeClient(clients, clientId)
  /\ UNCHANGED <<table, received, uuid, clock, handles, storeCall, budget, hist>>

\* the connection breaks; its close callback has not run yet
Disconnect(clientId) ==
  /\ clients[clientId].registered
  /\ clients[clientId].writable
  /\ clients' = [clients EXCEPT ![clientId].writable = FALSE]
  /\ UNCHANGED <<table, received, uuid, clock, handles, storeCall, budget, hist>>

InitStore == InitWith(SeedEmpty, {}, MaxRawAppends)

StoreAppends == \E event \in RawEvents : StoreAppend(event)

\* the route registers a listener for any id, the id of a stream of the
\* other type included
StoreAddClient ==
  \E clientId \in ClientIds, projectId \in {ProjectId, WorkspaceId} :
     AddClient(clientId, projectId)

StoreRemoveClient == \E clientId \in ClientIds : RemoveClient(clientId)

StoreDisconnect == \E clientId \in ClientIds : Disconnect(clientId)

NextStore ==
  \/ StoreAppends
  \/ StoreAddClient
  \/ StoreRemoveClient
  \/ StoreDisconnect

SpecStore == InitStore /\ [][NextStore]_vars

----------------------------------------------------------------------------
(* Two handles of one project stream *)

InitRace ==
  \E seed \in {SeedEmpty, SeedPair} :
     InitWith(seed, {"h1", "h2"}, MaxRaceCalls)

RaceLoad == \E h \in DOMAIN handles : Load(h)

RaceContinue == \E h \in DOMAIN handles : Continue(h)

RaceCreate == \E h \in DOMAIN handles : Create(h, "a", "")

RaceRename == \E h \in DOMAIN handles : Rename(h, "b")

RaceDeleteColumn ==
  \E h \in DOMAIN handles : \E columnId \in ColumnIds(h) : DeleteColumn(h, columnId)

RaceDeleteCard ==
  \E h \in DOMAIN handles : \E cardId \in CardIds(h) : DeleteCard(h, cardId, Undef)

NextRace ==
  \/ RaceLoad
  \/ RaceContinue
  \/ RaceCreate
  \/ RaceRename
  \/ RaceDeleteColumn
  \/ RaceDeleteCard

SpecRace == InitRace /\ [][NextRace]_vars

----------------------------------------------------------------------------
(* Requests of the HTTP routes: each loads a new aggregate, answers 404
   unless the project exists and the column or card it names is in the
   projection, runs one command on it and drops the aggregate *)

\* exists that forgets the deletion
exists_IgnoreDeleted(H) == H.state.id # ""

exists(H) == H.state.id # "" /\ ~H.state.deleted

\* [...values()].sort((a, b) => a.position - b.position): a stable sort
RECURSIVE SortByPosition(_)
SortByPosition(items) ==
  IF items = <<>> THEN <<>>
  ELSE LET i == CHOOSE a \in DOMAIN items :
                   \A b \in DOMAIN items :
                      \/ items[a].position < items[b].position
                      \/ (items[a].position = items[b].position /\ a <= b)
       IN <<items[i]>> \o
          SortByPosition([k \in 1..(Len(items) - 1) |->
                            IF k < i THEN items[k] ELSE items[k + 1]])

toProject(H) ==
  [id |-> H.state.id, workspace_id |-> H.state.workspace_id,
   name |-> H.state.name, description |-> H.state.description,
   columns |-> Map(SortByPosition(H.state.columns),
                   LAMBDA col :
                      [id |-> col.id, project_id |-> col.project_id,
                       name |-> col.name, position |-> col.position,
                       cards |-> SortByPosition(CardsInColumn(H.state, col.id))])]

getCard(H, cardId) == MapHas(H.state.cards, cardId)

getColumn(H, columnId) == MapHas(H.state.columns, columnId)

\* the handle was loaded by this request and has run no command
Loaded(h) ==
  /\ handles[h].pending = <<>>
  /\ handles[h].result = "none"

\* POST /columns/:columnId/cards
PostCard(h, columnId) ==
  /\ Loaded(h)
  /\ exists(handles[h])
  /\ getColumn(handles[h], columnId)
  /\ AddCard(h, columnId, "t", "", NoPosition, Undef)

\* DELETE /cards/:id
DeleteCardRoute(h, cardId) ==
  /\ Loaded(h)
  /\ exists(handles[h])
  /\ getCard(handles[h], cardId)
  /\ DeleteCard(h, cardId, Undef)

\* POST /cards/:id/dependencies
PostDependency(h, cardId, dependsOnCardId) ==
  /\ Loaded(h)
  /\ exists(handles[h])
  /\ getCard(handles[h], cardId)
  /\ getCard(handles[h], dependsOnCardId)
  /\ AddDependency(h, cardId, dependsOnCardId, Undef)

\* DELETE /cards/:id/dependencies/:dependsOnId
DeleteDependency(h, cardId, dependsOnCardId) ==
  /\ Loaded(h)
  /\ exists(handles[h])
  /\ getCard(handles[h], cardId)
  /\ RemoveDependency(h, cardId, dependsOnCardId, Undef)

InitRoutes ==
  \E seed \in {SeedPair} :
     InitWith(seed, {"h1", "h2"}, MaxRequests)

RoutesLoad == \E h \in DOMAIN handles : Load(h)

RoutesContinue == \E h \in DOMAIN handles : Continue(h)

RoutesPostCard ==
  \E h \in DOMAIN handles : \E columnId \in ColumnIds(h) : PostCard(h, columnId)

RoutesDeleteCard ==
  \E h \in DOMAIN handles : \E cardId \in CardIds(h) : DeleteCardRoute(h, cardId)

RoutesPostDependency ==
  \E h \in DOMAIN handles : \E cardId \in CardIds(h), dependsOnCardId \in CardIds(h) :
     PostDependency(h, cardId, dependsOnCardId)

RoutesDeleteDependency ==
  \E h \in DOMAIN handles : \E cardId \in CardIds(h), dependsOnCardId \in CardIds(h) :
     DeleteDependency(h, cardId, dependsOnCardId)

NextRoutes ==
  \/ RoutesLoad
  \/ RoutesContinue
  \/ RoutesPostCard
  \/ RoutesDeleteCard
  \/ RoutesPostDependency
  \/ RoutesDeleteDependency

SpecRoutes == InitRoutes /\ [][NextRoutes]_vars

----------------------------------------------------------------------------
(* Commands on a handle while listeners of the live feed come and go *)

InitFeed == InitWith(SeedPair, {"h1"}, MaxFeedCalls)

FeedContinue == \E h \in DOMAIN handles : Continue(h)

FeedAddCard ==
  \E h \in DOMAIN handles : \E columnId \in ColumnIds(h) :
     AddCard(h, columnId, "t", "", NoPosition, Undef)

FeedDeleteCard ==
  \E h \in DOMAIN handles : \E cardId \in CardIds(h) : DeleteCard(h, cardId, Undef)

FeedAddDependency ==
  \E h \in DOMAIN handles : \E cardId \in CardIds(h), dependsOnCardId \in CardIds(h) :
     AddDependency(h, cardId, dependsOnCardId, Undef)

FeedAddClient ==
  \E clientId \in ClientIds, projectId \in {ProjectId, OtherProjectId} :
     AddClient(clientId, projectId)

FeedRemoveClient == \E clientId \in ClientIds : RemoveClient(clientId)

FeedDisconnect == \E clientId \in ClientIds : Disconnect(clientId)

NextFeed ==
  \/ FeedContinue
  \/ FeedAddCard
  \/ FeedDeleteCard
  \/ FeedAddDependency
  \/ FeedAddClient
  \/ FeedRemoveClient
  \/ FeedDisconnect

SpecFeed == InitFeed /\ [][NextFeed]_vars

----------------------------------------------------------------------------
(* Workspace aggregate.  An aggregate is [workspaceId, state, version]; the
   state null is NoWorkspace.  create reads the clock for the event it
   applies to its own state and append reads the clock again for the row it
   stores: tick is the time that passes between the two readings. *)

NoWorkspace == [id |-> "", created_at |-> NoPosition]

newWorkspaceAggregate(workspaceId) ==
  [workspaceId |-> workspaceId, state |-> NoWorkspace, version |-> 0]

\* the switch of apply
applyWorkspaceEvent(state, event) ==
  IF event.event_type = "WorkspaceCreated"
  THEN [id |-> event.event_data.workspace_id, created_at |-> event.timestamp]
  ELSE state

RECURSIVE applyStored(_, _)
applyStored(W, events) ==
  IF events = <<>> THEN W
  ELSE applyStored([W EXCEPT !.state = applyWorkspaceEvent(W.state, Head(events)),
                             !.version = Head(events).version],
                   Tail(events))

workspaceLoad(t, W) == applyStored(W, getEvents(t, "workspace", W.workspaceId))

\* apply(event, TRUE): the state is set before the append, the version after
applyNew(S, W, event, state) ==
  \* state: the state after the switch; S: the system when append runs
  IF append(S, event).error # ""
  THEN [S |-> S, W |-> [W EXCEPT !.state = state],
        error |-> append(S, event).error, value |-> NoWorkspace]
  ELSE [S |-> append(S, event).S,
        W |-> [W EXCEPT !.state = state, !.version = event.version],
        error |-> "", value |-> state]

\* create without the test of this.state
workspaceCreate_NoGuard(S, W, tick) ==
  LET event == [aggregate_type |-> "workspace",
                aggregate_id |-> W.workspaceId,
                event_type |-> "WorkspaceCreated",
                event_data |-> [EmptyData EXCEPT !.workspace_id = W.workspaceId],
                version |-> W.version + 1,
                timestamp |-> S.clock]
  IN applyNew([S EXCEPT !.clock = @ + tick], W, event,
              applyWorkspaceEvent(W.state, event))

workspaceCreate(S, W, tick) ==
  IF W.state # NoWorkspace
  THEN [S |-> S, W |-> W, error |-> "", value |-> W.state]
  ELSE LET event == [aggregate_type |-> "workspace",
                     aggregate_id |-> W.workspaceId,
                     event_type |-> "WorkspaceCreated",
                     event_data |-> [EmptyData EXCEPT
                                       !.workspace_id = W.workspaceId],
                     version |-> W.version + 1,
                     timestamp |-> S.clock]
       IN applyNew([S EXCEPT !.clock = @ + tick], W, event,
                   applyWorkspaceEvent(W.state, event))

workspaceExists(W) == W.state # NoWorkspace

getOrCreateWorkspace(S, workspaceId, tick) ==
  LET aggregate == workspaceLoad(S.table, newWorkspaceAggregate(workspaceId))
  IN IF ~workspaceExists(aggregate)
     THEN workspaceCreate(S, aggregate, tick)
     ELSE [S |-> S, W |-> aggregate, error |-> "", value |-> aggregate.state]

\* hist of a workspace handle: the values its calls of getOrCreateWorkspace
\* returned and the error of its last call
WorkspaceCall(h, r, record) ==
  /\ budget > 0
  /\ budget' = budget - 1
  /\ SetSys(r.S)
  /\ handles' = [handles EXCEPT ![h] = r.W]
  /\ hist' = [hist EXCEPT ![h].returned =
                            IF record /\ r.error = "" THEN Append(@, r.value)
                            ELSE @,
                         ![h].error = r.error]
  /\ UNCHANGED storeCall

GetOrCreateWorkspace(h, tick) ==
  WorkspaceCall(h, getOrCreateWorkspace(Sys, WorkspaceId, tick), TRUE)

CreateWorkspace(h, tick) ==
  WorkspaceCall(h, workspaceCreate(Sys, handles[h], tick), FALSE)

LoadWorkspace(h) ==
  /\ handles' = [handles EXCEPT ![h] =
                   workspaceLoad(table, newWorkspaceAggregate(WorkspaceId))]
  /\ UNCHANGED <<table, clients, received, uuid, clock, storeCall, budget, hist>>

Ticks == {0, 1}

InitWorkspace ==
  /\ table = System0.table
  /\ clients = System0.clients
  /\ received = System0.received
  /\ uuid = System0.uuid
  /\ clock = System0.clock
  /\ handles = [h \in {"g1", "g2"} |-> newWorkspaceAggregate(WorkspaceId)]
  /\ hist = [h \in {"g1", "g2"} |-> [returned |-> <<>>, error |-> ""]]
  /\ storeCall = NoStoreCall
  /\ budget = MaxCreates

WorkspaceGetOrCreate ==
  \E h \in DOMAIN handles : \E tick \in Ticks : GetOrCreateWorkspace(h, tick)

WorkspaceCreate ==
  \E h \in DOMAIN handles : \E tick \in Ticks : CreateWorkspace(h, tick)

WorkspaceLoad == \E h \in DOMAIN handles : LoadWorkspace(h)

NextWorkspace ==
  \/ WorkspaceGetOrCreate
  \/ WorkspaceCreate
  \/ WorkspaceLoad

SpecWorkspace == InitWorkspace /\ [][NextWorkspace]_vars

----------------------------------------------------------------------------
(* Every writer of the events table side by side: the store called directly,
   a project handle, a workspace handle, while time passes *)

ProjectHandles == {"h1"}

WorkspaceHandles == {"g1"}

\* a handle that only loads
ReaderHandles == {"r1"}

InitLog ==
  \E seed \in {SeedEmpty, SeedPair} :
     /\ table = seed.S.table
     /\ clients = seed.S.clients
     /\ received = seed.S.received
     /\ uuid = seed.S.uuid
     /\ clock = seed.S.clock
     /\ handles = [h \in ProjectHandles \cup ReaderHandles \cup WorkspaceHandles |->
                     IF h \in ProjectHandles \cup ReaderHandles
                     THEN loadProject(seed.S.table, ProjectId)
                     ELSE newWorkspaceAggregate(WorkspaceId)]
     /\ hist = [h \in ProjectHandles \cup ReaderHandles \cup WorkspaceHandles |->
                  IF h \in ProjectHandles \cup ReaderHandles THEN NoHistory(seed.H.version)
                  ELSE [returned |-> <<>>, error |-> "", foreign |-> FALSE]]
     /\ storeCall = NoStoreCall
     /\ budget = MaxLogCalls

\* time passes
Tick ==
  /\ clock < MaxClock
  /\ clock' = clock + 1
  /\ UNCHANGED <<table, clients, received, uuid, handles, storeCall, budget, hist>>

LogAppend == \E event \in RawEvents : StoreAppend(event)

LogLoad == \E h \in ReaderHandles : Load(h)

LogContinue == \E h \in ProjectHandles : Continue(h)

LogCreate == \E h \in ProjectHandles : Create(h, "a", "")

LogDelete == \E h \in ProjectHandles : Delete(h)

LogDeleteColumn ==
  \E h \in ProjectHandles : \E columnId \in ColumnIds(h) : DeleteColumn(h, columnId)

LogDeleteCard ==
  \E h \in ProjectHandles : \E cardId \in CardIds(h) : DeleteCard(h, cardId, Undef)

LogGetOrCreateWorkspace ==
  \E h \in WorkspaceHandles : \E tick \in Ticks : GetOrCreateWorkspace(h, tick)

NextLog ==
  \/ Tick
  \/ LogAppend
  \/ LogLoad
  \/ LogContinue
  \/ LogCreate
  \/ LogDelete
  \/ LogDeleteColumn
  \/ LogDeleteCard
  \/ LogGetOrCreateWorkspace

SpecLog == InitLog /\ [][NextLog]_vars

----------------------------------------------------------------------------
(* The commands of a board on one handle, with and without a source tag,
   before and after the project is deleted; a ProjectCreated is also
   appended to the stream directly *)

Sources == {Undef, "mcp"}

InitBoard == InitWith(SeedPair, ProjectHandles, MaxBoardCalls)

BoardLoad == \E h \in ProjectHandles : Load(h)

BoardContinue == \E h \in ProjectHandles : Continue(h)

BoardAppend ==
  StoreAppend([aggregate_type |-> "project", aggregate_id |-> ProjectId,
               event_type |-> "ProjectCreated",
               event_data |-> [EmptyData EXCEPT !.project_id = ProjectId,
                                                !.workspace_id = WorkspaceId,
                                                !.name = "c",
                                                !.description = ""],
               version |-> getLatestVersion(table, "project", ProjectId) + 1])

BoardDelete == \E h \in ProjectHandles : Delete(h)

BoardRename == \E h \in ProjectHandles : Rename(h, "b")

BoardAddColumn ==
  \E h \in ProjectHandles : \E position \in {NoPosition, 5} :
     AddColumn(h, "n", position)

BoardAddCard ==
  \E h \in ProjectHandles : \E columnId \in ColumnIds(h), source \in Sources :
     AddCard(h, columnId, "t", "", NoPosition, source)

BoardUpdateCard ==
  \E h \in ProjectHandles :
     \E cardId \in CardIds(h), title \in {Undef, "u"}, description \in {Undef, "d"},
        source \in Sources :
        UpdateCard(h, cardId, title, description, source)

BoardDeleteCard ==
  \E h \in ProjectHandles : \E cardId \in CardIds(h), source \in Sources :
     DeleteCard(h, cardId, source)

BoardAddDependency ==
  \E h \in ProjectHandles :
     \E cardId \in CardIds(h), dependsOnCardId \in CardIds(h), source \in Sources :
        AddDependency(h, cardId, dependsOnCardId, source)

NextBoard ==
  \/ BoardLoad
  \/ BoardContinue
  \/ BoardAppend
  \/ BoardDelete
  \/ BoardRename
  \/ BoardAddColumn
  \/ BoardAddCard
  \/ BoardUpdateCard
  \/ BoardDeleteCard
  \/ BoardAddDependency

SpecBoard == InitBoard /\ [][NextBoard]_vars

----------------------------------------------------------------------------
(* The history queries of the store, asked while a project handle and the
   store write and time passes.  The store holds the project of ProjectId in
   the workspace of WorkspaceId and a second project in that workspace or in
   another one; the second project is renamed by a direct append. *)

QueryHandles == {"q1"}

\* the limits a caller gives: none, 0 and 1
Limits == {NoLimit, <<0>>, <<1>>}

NoQuery ==
  [op |-> "none", workspaceId |-> "", projectId |-> "", cardId |-> NoId,
   limit |-> NoLimit, rows |-> <<>>]

OtherProjectCreated(workspaceId) ==
  [aggregate_type |-> "project", aggregate_id |-> OtherProjectId,
   event_type |-> "ProjectCreated",
   event_data |-> [EmptyData EXCEPT !.project_id = OtherProjectId,
                                    !.workspace_id = workspaceId,
                                    !.name = "b", !.description = ""],
   version |-> 1]

\* getOrCreateWorkspace has stored the workspace before any project of it
SeedQuery(workspaceId) ==
  [S |-> append(append(SeedPair.S, RawEvent("workspace", WorkspaceId, 1)).S,
                OtherProjectCreated(workspaceId)).S,
   H |-> SeedPair.H]

InitQuery ==
  \E seed \in {SeedQuery(WorkspaceId), SeedQuery(OtherWorkspaceId)} :
     /\ table = seed.S.table
     /\ clients = seed.S.clients
     /\ received = seed.S.received
     /\ uuid = seed.S.uuid
     /\ clock = seed.S.clock
     /\ handles = [h \in ProjectHandles \cup QueryHandles |->
                     IF h \in ProjectHandles
                     THEN loadProject(seed.S.table, ProjectId)
                     ELSE NoQuery]
     /\ hist = [h \in ProjectHandles |-> NoHistory(seed.H.version)]
     /\ storeCall = NoStoreCall
     /\ budget = MaxQueryCalls

\* eventStore.getWorkspaceEvents(workspaceId, limit)
GetWorkspaceEvents(q, workspaceId, limit, tie) ==
  /\ handles' = [handles EXCEPT ![q] =
                   [NoQuery EXCEPT !.op = "getWorkspaceEvents",
                                   !.workspaceId = workspaceId, !.limit = limit,
                                   !.rows = getWorkspaceEvents(table, workspaceId,
                                                               limit, tie)]]
  /\ UNCHANGED <<table, clients, received, uuid, clock, storeCall, budget, hist>>

\* eventStore.getCardEvents(projectId, cardId, limit)
GetCardEvents(q, projectId, cardId, limit, tie) ==
  /\ handles' = [handles EXCEPT ![q] =
                   [NoQuery EXCEPT !.op = "getCardEvents",
                                   !.projectId = projectId, !.cardId = cardId,
                                   !.limit = limit,
                                   !.rows = getCardEvents(table, projectId, cardId,
                                                          limit, tie)]]
  /\ UNCHANGED <<table, clients, received, uuid, clock, storeCall, budget, hist>>

QueryTick == Tick

QueryAppend ==
  StoreAppend(RawEvent("project", OtherProjectId,
                       getLatestVersion(table, "project", OtherProjectId) + 1))

QueryContinue == \E h \in ProjectHandles : Continue(h)

QueryDelete == \E h \in ProjectHandles : Delete(h)

QueryUpdateCard ==
  \E h \in ProjectHandles : \E cardId \in CardIds(h) \ {UnknownId} :
     UpdateCard(h, cardId, "u", Undef, Undef)

QueryDeleteCard ==
  \E h \in ProjectHandles : \E cardId \in CardIds(h) \ {UnknownId} :
     DeleteCard(h, cardId, Undef)

QueryWorkspaceEvents ==
  \E q \in QueryHandles, workspaceId \in {WorkspaceId, OtherWorkspaceId},
     limit \in Limits, tie \in TieOrders :
     GetWorkspaceEvents(q, workspaceId, limit, tie)

QueryCardEvents ==
  \E q \in QueryHandles, projectId \in {ProjectId, OtherProjectId},
     cardId \in {4, 5}, limit \in Limits, tie \in TieOrders :
     GetCardEvents(q, projectId, cardId, limit, tie)

NextQuery ==
  \/ QueryTick
  \/ QueryAppend
  \/ QueryContinue
  \/ QueryDelete
  \/ QueryUpdateCard
  \/ QueryDeleteCard
  \/ QueryWorkspaceEvents
  \/ QueryCardEvents

SpecQuery == InitQuery /\ [][NextQuery]_vars

----------------------------------------------------------------------------
(* Requests of the project, column and card routes running side by side on
   one store.  Every request loads a new aggregate and answers 404 unless
   the project exists; a PUT makes up to two commands on the aggregate it
   loaded, the second only when the first has returned.  POST
   /workspaces/:uuid/projects draws a new project id and creates the project
   on a new aggregate without loading. *)

HttpHandles == {"h1", "h2"}

\* the column and the card the requests name: the column that holds card 5,
\* and card 4, which card 5 depends on
HttpColumnIds == {2}
HttpCardIds == {4}

\* the command op of this request on handle h has returned without an error
Answered(h, op) ==
  /\ handles[h].pending = <<>>
  /\ handles[h].result = "ok"
  /\ hist[h].cmd.op = op

\* POST /workspaces/:uuid/projects: the id is new, so its stream is empty
PostProject(h, name, description) ==
  /\ name # Undef
  /\ getLatestVersion(table, "project", ProjectId) = 0
  /\ handles[h] = newAggregate(ProjectId)
  /\ Create(h, name, description)

\* PUT /projects/:id
PutProject(h, name, description) ==
  \/ /\ Loaded(h)
     /\ exists(handles[h])
     /\ name # Undef
     /\ Rename(h, name)
  \/ /\ \/ Loaded(h) /\ exists(handles[h]) /\ name = Undef
        \/ Answered(h, "rename") /\ hist[h].cmd.name = name
     /\ description # Undef
     /\ UpdateDescription(h, description)

\* DELETE /projects/:id
DeleteProject(h) ==
  /\ Loaded(h)
  /\ exists(handles[h])
  /\ Delete(h)

\* POST /projects/:projectId/columns
PostColumn(h, name, position) ==
  /\ name # Undef
  /\ Loaded(h)
  /\ exists(handles[h])
  /\ AddColumn(h, name, position)

\* PUT /columns/:id
PutColumn(h, columnId, name, position) ==
  \/ /\ Loaded(h)
     /\ exists(handles[h])
     /\ getColumn(handles[h], columnId)
     /\ name # Undef
     /\ RenameColumn(h, columnId, name)
  \/ /\ \/ /\ Loaded(h)
           /\ exists(handles[h])
           /\ getColumn(handles[h], columnId)
           /\ name = Undef
        \/ /\ Answered(h, "renameColumn")
           /\ hist[h].cmd.columnId = columnId
           /\ hist[h].cmd.name = name
     /\ position # NoPosition
     /\ MoveColumn(h, columnId, position)

\* DELETE /columns/:id
DeleteColumnRoute(h, columnId) ==
  /\ Loaded(h)
  /\ exists(handles[h])
  /\ getColumn(handles[h], columnId)
  /\ DeleteColumn(h, columnId)

\* PUT /cards/:id: the card moves to column_id ?? card.column_id, the column
\* the card was in when the request loaded it
PutCard(h, cardId, title, column_id) ==
  \/ /\ Loaded(h)
     /\ exists(handles[h])
     /\ getCard(handles[h], cardId)
     /\ title # Undef
     /\ UpdateCard(h, cardId, title, Undef, Undef)
  \/ /\ \/ /\ Loaded(h)
           /\ exists(handles[h])
           /\ getCard(handles[h], cardId)
           /\ title = Undef
        \/ /\ Answered(h, "updateCard")
           /\ hist[h].cmd.cardId = cardId
           /\ hist[h].cmd.title = title
     /\ column_id # NoId
     /\ MoveCard(h, cardId, column_id, NoPosition, Undef)

InitHttp ==
  \E seed \in {SeedEmpty, SeedPair} :
     InitWith(seed, HttpHandles, MaxRequests)

HttpLoad == \E h \in HttpHandles : Load(h)

HttpContinue == \E h \in HttpHandles : Continue(h)

HttpPostProject == \E h \in HttpHandles : PostProject(h, "a", "")

HttpPutProject ==
  \E h \in HttpHandles : \E name \in {Undef, "b"}, description \in {Undef, "d"} :
     PutProject(h, name, description)

HttpDeleteProject == \E h \in HttpHandles : DeleteProject(h)

HttpPostColumn == \E h \in HttpHandles : PostColumn(h, "n", NoPosition)

HttpPutColumn ==
  \E h \in HttpHandles :
     \E columnId \in HttpColumnIds, name \in {Undef, "m"}, position \in {NoPosition, 0} :
        PutColumn(h, columnId, name, position)

HttpDeleteColumn ==
  \E h \in HttpHandles : \E columnId \in HttpColumnIds : DeleteColumnRoute(h, columnId)

HttpPostCard ==
  \E h \in HttpHandles : \E columnId \in HttpColumnIds : PostCard(h, columnId)

HttpPutCard ==
  \E h \in HttpHandles :
     \E cardId \in HttpCardIds, title \in {Undef, "u"}, column_id \in {NoId} \cup HttpColumnIds :
        PutCard(h, cardId, title, column_id)

HttpDeleteCard ==
  \E h \in HttpHandles : \E cardId \in HttpCardIds : DeleteCardRoute(h, cardId)

NextHttp ==
  \/ HttpLoad
  \/ HttpContinue
  \/ HttpPostProject
  \/ HttpPutProject
  \/ HttpDeleteProject
  \/ HttpPostColumn
  \/ HttpPutColumn
  \/ HttpDeleteColumn
  \/ HttpPostCard
  \/ HttpPutCard
  \/ HttpDeleteCard

SpecHttp == InitHttp /\ [][NextHttp]_vars

----------------------------------------------------------------------------
(* The commands that set a position, on one handle, with and without a
   position given by the caller.  The board holds the columns 1, 2, 3 at the
   positions 0, 1, 2, card 4 in column 1 and the cards 5 and 6 in column 2. *)

PositionColumnIds == {1, 2}
PositionCardIds == {4, 5, 6}

InitPositions == InitWith(SeedCards, ProjectHandles, MaxCalls)

PositionsAddColumn ==
  \E h \in ProjectHandles : \E position \in {NoPosition, 1} :
     AddColumn(h, "n", position)

PositionsMoveColumn ==
  \E h \in ProjectHandles : \E columnId \in PositionColumnIds, position \in {1, 7} :
     MoveColumn(h, columnId, position)

PositionsAddCard ==
  \E h \in ProjectHandles : \E columnId \in PositionColumnIds, position \in {NoPosition, 0} :
     AddCard(h, columnId, "t", "", position, Undef)

PositionsMoveCard ==
  \E h \in ProjectHandles :
     \E cardId \in PositionCardIds, columnId \in PositionColumnIds,
        position \in {NoPosition, 0} :
        MoveCard(h, cardId, columnId, position, Undef)

NextPositions ==
  \/ PositionsAddColumn
  \/ PositionsMoveColumn
  \/ PositionsAddCard
  \/ PositionsMoveCard

SpecPositions == InitPositions /\ [][NextPositions]_vars

----------------------------------------------------------------------------
(* Replay of events that no command of the aggregate would have made: they
   are appended to the project stream directly and the handle loads the
   stream.  The board holds the columns 1, 2, 3 and the cards 4 and 5, card 5
   depending on card 4; the id 9 names nothing. *)

StrayId == 9

StrayEvent(eventType, eventData) ==
  [aggregate_type |-> "project", aggregate_id |-> ProjectId,
   event_type |-> eventType, event_data |-> eventData,
   version |-> getLatestVersion(table, "project", ProjectId) + 1]

StrayEvents ==
  {StrayEvent("CardArchived", [EmptyData EXCEPT !.card_id = 4]),
   StrayEvent("ColumnRenamed", [EmptyData EXCEPT !.column_id = StrayId, !.name = "x"]),
   StrayEvent("ColumnMoved", [EmptyData EXCEPT !.column_id = StrayId, !.position = 0]),
   StrayEvent("CardUpdated", [EmptyData EXCEPT !.card_id = StrayId, !.title = "x"]),
   StrayEvent("CardMoved", [EmptyData EXCEPT !.card_id = StrayId, !.column_id = 1,
                                             !.position = 0]),
   StrayEvent("DependencyAdded", [EmptyData EXCEPT !.card_id = StrayId,
                                                   !.depends_on_card_id = 4]),
   StrayEvent("DependencyRemoved", [EmptyData EXCEPT !.card_id = StrayId,
                                                     !.depends_on_card_id = 4]),
   StrayEvent("DependencyAdded", [EmptyData EXCEPT !.card_id = 4,
                                                   !.depends_on_card_id = 4]),
   StrayEvent("DependencyAdded", [EmptyData EXCEPT !.card_id = 4,
                                                   !.depends_on_card_id = StrayId]),
   StrayEvent("CardMoved", [EmptyData EXCEPT !.card_id = 4, !.column_id = StrayId,
                                             !.position = 0])}

InitFold == InitWith(SeedPair, ProjectHandles, MaxRawAppends)

FoldAppend == \E event \in StrayEvents : StoreAppend(event)

FoldLoad == \E h \in ProjectHandles : Load(h)

NextFold ==
  \/ FoldAppend
  \/ FoldLoad

SpecFold == InitFold /\ [][NextFold]_vars

----------------------------------------------------------------------------
(* Properties of the event store *)

StreamRows(t, st) ==
  {i \in DOMAIN t : t[i].aggregate_type = st[1] /\ t[i].aggregate_id = st[2]}

Versions(t, st) == {t[i].version : i \in StreamRows(t, st)}

KeyStored(t, event) ==
  event.version \in Versions(t, <<event.aggregate_type, event.aggregate_id>>)

Latest(t, st) ==
  IF Versions(t, st) = {} THEN 0
  ELSE CHOOSE v \in Versions(t, st) : \A u \in Versions(t, st) : u <= v

LastCall == storeCall.event[1]

\* C1: an append of an event whose (aggregate_type, aggregate_id, version) is
\* already stored fails with the concurrency conflict, leaves the table as it
\* was and writes to no listener.
DuplicateAppendRejected ==
  [][\A event \in RawEvents :
        (KeyStored(table, event) /\ StoreAppend(event)) =>
           /\ storeCall'.error = ConcurrencyConflict
           /\ storeCall'.saved = <<>>
           /\ table' = table
           /\ received' = received
           /\ clients' = clients]_vars

DuplicateAppendRejectedWitness ==
  /\ storeCall.error = ConcurrencyConflict
  /\ LastCall.aggregate_type = "project"
  /\ \E c \in ClientIds :
        /\ clients[c].registered
        /\ clients[c].writable
        /\ clients[c].projectId = LastCall.aggregate_id

\* C2 as stated: the stored versions of every stream are exactly 1..n, and
\* the store accepts no event whose version is not the latest version of its
\* stream plus one.
VersionsGaplessEnforced ==
  /\ \A st \in Streams : Versions(table, st) = 1..Cardinality(StreamRows(table, st))
  /\ (storeCall.event # <<>> /\ storeCall.error = "") =>
        LET st == <<LastCall.aggregate_type, LastCall.aggregate_id>>
        IN LastCall.version = Cardinality(StreamRows(table, st))

\* C2 as amended: no two stored events of a stream share a version, and the
\* store refuses an append exactly when the version of the event is already
\* stored for its stream; every other append, a version that skips one
\* included, is stored as a new row.
VersionsUniqueEnforced ==
  /\ [](\A i, j \in DOMAIN table :
           (/\ table[i].aggregate_type = table[j].aggregate_type
            /\ table[i].aggregate_id = table[j].aggregate_id
            /\ table[i].version = table[j].version) => i = j)
  /\ [][\A event \in RawEvents :
           StoreAppend(event) =>
              IF KeyStored(table, event)
              THEN storeCall'.error = ConcurrencyConflict /\ table' = table
              ELSE /\ storeCall'.error = ""
                   /\ Len(table') = Len(table) + 1
                   /\ SubSeq(table', 1, Len(table)) = table
                   /\ table'[Len(table')].aggregate_type = event.aggregate_type
                   /\ table'[Len(table')].aggregate_id = event.aggregate_id
                   /\ table'[Len(table')].version = event.version]_vars

VersionsUniqueEnforcedWitness ==
  /\ storeCall.error = ConcurrencyConflict
  /\ \E st \in Streams :
        /\ Versions(table, st) # {}
        /\ Versions(table, st) # 1..Cardinality(StreamRows(table, st))
        /\ Latest(table, st) > Cardinality(StreamRows(table, st))

----------------------------------------------------------------------------
(* Properties of concurrent handles *)

Stored == Fold(initialState, getEvents(table, "project", ProjectId))

StreamLength == Cardinality(StreamRows(table, <<"project", ProjectId>>))

Attempts(h) == handles[h].version - hist[h].loadedAt

OneAppend(h) ==
  /\ Attempts(h) = 1
  /\ handles[h].pending = <<>>
  /\ handles[h].result \in {"ok", ConcurrencyConflict}

\* C3: of two handles loaded at the same version that each issue one command
\* appending a single event, the first to append succeeds and the later one
\* fails with the concurrency conflict; exactly one append succeeds, nothing
\* is retried and the stream grows by exactly one event.
RaceOneWins ==
  \A h \in DOMAIN handles : \A k \in DOMAIN handles \ {h} :
     (hist[h].loadedAt = hist[k].loadedAt /\ OneAppend(h)) =>
        /\ Attempts(k) = 0 => handles[h].result = "ok"
        /\ OneAppend(k) =>
              /\ {handles[h].result, handles[k].result} = {"ok", ConcurrencyConflict}
              /\ StreamLength = hist[h].loadedAt + 1
              /\ handles[h].version = hist[h].loadedAt + 1

RaceOneWinsWitness ==
  \E h \in DOMAIN handles : \E k \in DOMAIN handles \ {h} :
     /\ hist[h].loadedAt = hist[k].loadedAt
     /\ OneAppend(h)
     /\ OneAppend(k)
     /\ handles[h].result = "ok"
     /\ handles[k].result = ConcurrencyConflict

Appended(h) ==
  /\ Len(table') = Len(table) + 1
  /\ handles'[h].version # handles[h].version

\* C4: every event a handle stores was emitted against the fold of exactly
\* the events stored before it, and a handle whose command failed with the
\* concurrency conflict stores no event until it is loaded again.
ReloadRequired ==
  [][\A h \in DOMAIN handles :
        Appended(h) =>
           /\ handles[h].state = Stored
           /\ handles[h].result # ConcurrencyConflict]_vars

\* C5: a handle that is the only writer of its stream since it was loaded
\* holds, after each of its appends, the intermediate ones of create,
\* deleteColumn and deleteCard included, the fold of the events stored for
\* the stream, whose versions are 1..n without a gap.
SoleWriterProjection ==
  \A h \in DOMAIN handles :
     ~hist[h].foreign =>
        /\ handles[h].state = Stored
        /\ handles[h].version = StreamLength
        /\ Versions(table, <<"project", ProjectId>>) = 1..StreamLength

SoleWriterProjectionWitness ==
  \E h \in DOMAIN handles :
     /\ ~hist[h].foreign
     /\ handles[h].pending # <<>>
     /\ hist[h].cmd.op = "deleteCard"
     /\ hist[h].emitted # <<>>

\* C6: whatever the interleaving of requests that each load a new aggregate
\* and run one command on it, the projection of the stored stream holds no
\* card whose dependency list names a card that is not in the projection.
DependencyGraphConsistent ==
  \A i \in DOMAIN Stored.cards :
     \A n \in DOMAIN Stored.cards[i].dependencies :
        \E j \in DOMAIN Stored.cards :
           Stored.cards[j].id = Stored.cards[i].dependencies[n]

DependencyGraphConsistentWitness ==
  \E h \in DOMAIN handles :
     /\ handles[h].result = ConcurrencyConflict
     /\ hist[h].cmd.op = "deleteCard"
     /\ hist[h].emitted # <<>>
     /\ \E i \in DOMAIN Stored.cards : Stored.cards[i].id = hist[h].cmd.cardId

----------------------------------------------------------------------------
(* Properties of the cascades *)

Finished(h, op) == handles[h].result = "ok" /\ hist[h].cmd.op = op

Elements(s) == {s[i] : i \in DOMAIN s}

DependsOn(card, id) == \E n \in DOMAIN card.dependencies : card.dependencies[n] = id

CardsIn(state, columnId) == {c \in Elements(state.cards) : c.column_id = columnId}

Removals(em, cardId, dependsOnCardId) ==
  {i \in 1..(Len(em) - 1) :
     /\ em[i].event_type = "DependencyRemoved"
     /\ em[i].event_data.card_id = cardId
     /\ em[i].event_data.depends_on_card_id = dependsOnCardId}

\* C7: a deleteCard(A) that completes has appended exactly one
\* DependencyRemoved for each card whose dependency list held A, then one
\* CardDeleted as its last event (k + 1 events for k dependents), and leaves
\* A out of the projection and out of every dependency list.
DeleteCardCascade ==
  \A h \in DOMAIN handles :
     Finished(h, "deleteCard") =>
        LET A == hist[h].cmd.cardId
            em == hist[h].emitted
            dependents == {c.id : c \in {x \in Elements(hist[h].pre.cards) :
                                           DependsOn(x, A)}}
        IN /\ Len(em) = Cardinality(dependents) + 1
           /\ em[Len(em)].event_type = "CardDeleted"
           /\ em[Len(em)].event_data.card_id = A
           /\ \A i \in 1..(Len(em) - 1) :
                 /\ em[i].event_type = "DependencyRemoved"
                 /\ em[i].event_data.depends_on_card_id = A
                 /\ em[i].event_data.card_id \in dependents
           /\ \A d \in dependents : Cardinality(Removals(em, d, A)) = 1
           /\ \A c \in Elements(handles[h].state.cards) :
                 c.id # A /\ ~DependsOn(c, A)

DeleteCardCascadeWitness ==
  \E h \in DOMAIN handles :
     /\ Finished(h, "deleteCard")
     /\ Len(hist[h].emitted) = 3
     /\ hist[h].cmd.cardId \notin {c.id : c \in Elements(handles[h].state.cards)}

LowestOthers(state, X) ==
  {c \in Elements(state.columns) :
     /\ c.id # X
     /\ \A o \in Elements(state.columns) : o.id # X => c.position <= o.position}

\* C8: whenever the project has a column other than X, a deleteColumn(X) that
\* completes leaves no card with column_id = X, and every card that was in X
\* is in the lowest-position column other than X.
DeleteColumnMovesEveryCard ==
  \A h \in DOMAIN handles :
     Finished(h, "deleteColumn") =>
        LET X == hist[h].cmd.columnId
            pre == hist[h].pre
            post == handles[h].state
        IN LowestOthers(pre, X) # {} =>
              /\ CardsIn(post, X) = {}
              /\ \A c \in CardsIn(pre, X) :
                    \E k \in Elements(post.cards), Y \in LowestOthers(pre, X) :
                       k.id = c.id /\ k.column_id = Y.id

StrictlyLowest(state) ==
  {c \in Elements(state.columns) :
     \A o \in Elements(state.columns) : o.id # c.id => c.position < o.position}

\* C9: a deleteColumn(X) that completes, where the lowest-position column Y
\* is not X, has appended one CardMoved per card of X, in turn, then exactly
\* one ColumnDeleted; each card gets column_id = Y and the number of cards in Y
\* at that step as its position (Y holding one card, the two cards of X end
\* at positions 1 and 2).
DeleteColumnCascade ==
  \A h \in DOMAIN handles :
     Finished(h, "deleteColumn") =>
        \A Y \in StrictlyLowest(hist[h].pre) :
           LET X == hist[h].cmd.columnId
               pre == hist[h].pre
               em == hist[h].emitted
               post == handles[h].state
               moved == SelectSeq(pre.cards, LAMBDA c : c.column_id = X)
               AtStep(i) == Fold(pre, SubSeq(em, 1, i - 1))
           IN Y.id # X =>
                /\ Len(em) = Len(moved) + 1
                /\ em[Len(em)].event_type = "ColumnDeleted"
                /\ em[Len(em)].event_data.column_id = X
                /\ \A i \in DOMAIN moved :
                      /\ em[i].event_type = "CardMoved"
                      /\ em[i].event_data.card_id = moved[i].id
                      /\ em[i].event_data.column_id = Y.id
                      /\ em[i].event_data.position =
                            Cardinality(CardsIn(AtStep(i), Y.id))
                      /\ \E k \in Elements(post.cards) :
                            /\ k.id = moved[i].id
                            /\ k.column_id = Y.id
                            /\ k.position = em[i].event_data.position
                /\ (Cardinality(CardsIn(pre, Y.id)) = 1 /\ Len(moved) = 2) =>
                      /\ em[1].event_data.position = 1
                      /\ em[2].event_data.position = 2

DeleteColumnCascadeWitness ==
  \E h \in DOMAIN handles :
     /\ Finished(h, "deleteColumn")
     /\ \E Y \in StrictlyLowest(hist[h].pre) :
           /\ Y.id # hist[h].cmd.columnId
           /\ Cardinality(CardsIn(hist[h].pre, Y.id)) = 1
           /\ Cardinality(CardsIn(hist[h].pre, hist[h].cmd.columnId)) = 2
           /\ Cardinality(CardsIn(handles[h].state, Y.id)) = 3
     /\ Len(hist[h].emitted) = 3

NoSelfDependency(state) == \A c \in Elements(state.cards) : ~DependsOn(c, c.id)

\* C10: addDependency(c, c) on an existing card c fails with "Card cannot
\* depend on itself" and appends nothing, and no card of any projection, of a
\* handle or of the stored stream, has its own id in its dependency list.
SelfDependencyGuard ==
  /\ [](\A h \in DOMAIN handles :
           NoSelfDependency(handles[h].state) /\ NoSelfDependency(Stored))
  /\ [][\A h \in DOMAIN handles, c \in 1..uuid :
           ((\E x \in Elements(handles[h].state.cards) : x.id = c)
              /\ AddDependency(h, c, c, Undef))
           => /\ table' = table
              /\ handles'[h].result = SelfDependency
              /\ handles'[h].state = handles[h].state
              /\ handles'[h].version = handles[h].version]_vars

SelfDependencyGuardWitness ==
  \E h \in DOMAIN handles :
     /\ handles[h].result = SelfDependency
     /\ handles[h].state.cards # <<>>

----------------------------------------------------------------------------
(* Properties of failing commands *)

ValidationErrors ==
  {ColumnNotFound, CardNotFound, DependencyCardNotFound, SelfDependency}

Rejected(h) ==
  /\ budget' = budget - 1
  /\ handles'[h].result \in ValidationErrors
  /\ \A k \in DOMAIN handles \ {h} : handles'[k] = handles[k]

\* C11: a command that ends with a validation error (column, card or
\* dependency target not found, self-dependency) has appended nothing: the
\* table, the state and the version of the handle are as before the call and
\* no listener was written to or dropped.
ValidationBeforeAppend ==
  [][\A h \in DOMAIN handles :
        Rejected(h) =>
           /\ table' = table
           /\ received' = received
           /\ clients' = clients
           /\ handles'[h].state = handles[h].state
           /\ handles'[h].version = handles[h].version
           /\ handles'[h].pending = <<>>]_vars

ValidationBeforeAppendWitness ==
  \E h \in DOMAIN handles :
     /\ handles[h].result \in ValidationErrors
     /\ budget < MaxFeedCalls
     /\ \E c \in ClientIds :
           /\ clients[c].registered
           /\ clients[c].writable
           /\ clients[c].projectId = ProjectId

MultiEvent == {"create", "deleteColumn", "deleteCard"}

IsStored(e) ==
  \E i \in StreamRows(table, <<"project", ProjectId>>) :
     /\ table[i].event_type = e.event_type
     /\ table[i].event_data = e.event_data

\* C12: when an append of create, deleteColumn or deleteCard fails with the
\* concurrency conflict, the command ends with that error, the events it had
\* appended before stay in the table, and it appends none of its remaining
\* events, so its last event, the primary one, is not appended by it.
ConflictStopsCascade ==
  \A h \in DOMAIN handles :
     (handles[h].result = ConcurrencyConflict /\ hist[h].cmd.op \in MultiEvent) =>
        /\ handles[h].pending = <<>>
        /\ Len(hist[h].emitted) < Len(Steps(hist[h].pre, hist[h].cmd))
        /\ \A i \in DOMAIN hist[h].emitted : IsStored(hist[h].emitted[i])

ConflictStopsCascadeWitness ==
  \E h \in DOMAIN handles :
     /\ handles[h].result = ConcurrencyConflict
     /\ hist[h].cmd.op = "deleteColumn"
     /\ hist[h].emitted # <<>>
     /\ hist[h].emitted[1].event_type = "CardMoved"

----------------------------------------------------------------------------
(* Properties of create *)

Created(h) ==
  /\ hist[h].cmd.op = "create"
  /\ hist[h].loadedAt = 0
  /\ hist[h].pre = initialState
  /\ ~hist[h].foreign
  /\ handles[h].pending = <<>>
  /\ handles[h].result = "ok"

ProjectRows == [i \in 1..StreamLength |-> getEvents(table, "project", ProjectId)[i]]

\* C13: after a project was created on a new aggregate, its stream holds
\* exactly four events, with versions 1, 2, 3, 4: ProjectCreated and three
\* ColumnAdded; the projection has exactly the columns "To Do",
\* "In Progress", "Done" at positions 0, 1, 2 and no card.
CreateDefaults ==
  \A h \in DOMAIN handles :
     Created(h) =>
        /\ StreamLength = 4
        /\ [i \in 1..4 |-> ProjectRows[i].version] = <<1, 2, 3, 4>>
        /\ [i \in 1..4 |-> ProjectRows[i].event_type] =
              <<"ProjectCreated", "ColumnAdded", "ColumnAdded", "ColumnAdded">>
        /\ Len(hist[h].emitted) = 4
        /\ [i \in 1..Len(handles[h].state.columns) |->
              <<handles[h].state.columns[i].name,
                handles[h].state.columns[i].position>>] =
              <<<<"To Do", 0>>, <<"In Progress", 1>>, <<"Done", 2>>>>
        /\ Cardinality({handles[h].state.columns[i].id :
                           i \in DOMAIN handles[h].state.columns}) = 3
        /\ handles[h].state.cards = <<>>
        /\ Stored = handles[h].state

CreateDefaultsWitness ==
  \E h \in DOMAIN handles :
     /\ Created(h)
     /\ handles[h].state.id = ProjectId
     /\ Len(handles[h].state.columns) = 3

----------------------------------------------------------------------------
(* Properties of the workspace aggregate *)

WorkspaceRows == StreamRows(table, <<"workspace", WorkspaceId>>)

\* C14: whatever the interleaving of loads, create calls and
\* getOrCreateWorkspace calls on the handles of one workspace id, its stream
\* holds at most one event, and that event is a WorkspaceCreated at version 1.
WorkspaceCreatedOnce ==
  /\ Cardinality(WorkspaceRows) <= 1
  /\ \A i \in WorkspaceRows :
        /\ table[i].event_type = "WorkspaceCreated"
        /\ table[i].version = 1
        /\ table[i].event_data.workspace_id = WorkspaceId

WorkspaceCreatedOnceWitness ==
  /\ Cardinality(WorkspaceRows) = 1
  /\ \E h \in DOMAIN handles : hist[h].error = ConcurrencyConflict
  /\ \E h \in DOMAIN handles : Len(hist[h].returned) >= 2

Returned == UNION {Elements(hist[h].returned) : h \in DOMAIN hist}

\* C15: every call of getOrCreateWorkspace for one id, the first included,
\* returns the same Workspace value, with the same id and the same
\* created_at, and one WorkspaceCreated is stored in total.
WorkspaceValueStable ==
  /\ Cardinality(Returned) <= 1
  /\ Returned # {} => Cardinality(WorkspaceRows) = 1

----------------------------------------------------------------------------
(* Properties of the log *)

StreamSeq(t, st) ==
  SelectSeq(t, LAMBDA row : row.aggregate_type = st[1] /\ row.aggregate_id = st[2])

IsPrefix(s, t) == Len(s) <= Len(t) /\ SubSeq(t, 1, Len(s)) = s

Contiguous(t, st) ==
  {row.version : row \in Elements(StreamSeq(t, st))} = 1..Len(StreamSeq(t, st))

\* C16: no step of the store, of a project aggregate (delete, deleteColumn
\* and deleteCard included) or of a workspace aggregate removes or changes a
\* stored row: the rows of the table, and so the rows of every stream in the
\* order they were stored, with their type, payload, version and timestamp,
\* are a prefix of the rows after the step.  Where the versions of a stream
\* are 1..n, as every aggregate leaves them, the events read back in version
\* order are a prefix of the events read back after the step as well.
AppendOnly ==
  [][/\ IsPrefix(table, table')
     /\ \A st \in Streams :
           /\ IsPrefix(StreamSeq(table, st), StreamSeq(table', st))
           /\ Contiguous(table, st) =>
                 IsPrefix(getEvents(table, st[1], st[2]),
                          getEvents(table', st[1], st[2]))]_vars

AppendOnlyWitness ==
  /\ \E i \in DOMAIN table : table[i].event_type = "ProjectDeleted"
  /\ \E i \in DOMAIN table : table[i].event_type \in {"CardDeleted", "ColumnDeleted"}
  /\ \E i \in DOMAIN table : table[i].event_type = "CardAdded"

----------------------------------------------------------------------------
(* Properties of replay *)

\* an event list without what the store stamps on it
Untimed(events) ==
  [i \in DOMAIN events |-> [events[i] EXCEPT !.timestamp = 0, !.id = NoId]]

ProjectEvents(t) == getEvents(t, "project", ProjectId)

\* C17: the projection of the stored project stream is the fold of its
\* events with their timestamps and sequence ids erased, whatever the clock
\* and the id generator are at; every load of a handle leaves it with exactly
\* that state, so two handles that load the same stream hold equal state.
ReplayDeterministic ==
  /\ [](/\ Fold(initialState, ProjectEvents(table)) =
             Fold(initialState, Untimed(ProjectEvents(table)))
        /\ loadProject(table, ProjectId).state =
             Fold(initialState, Untimed(ProjectEvents(table))))
  /\ [][\A h \in ReaderHandles :
           (handles'[h] # handles[h] /\ table' = table) =>
              /\ handles'[h].state =
                   Fold(initialState, Untimed(ProjectEvents(table)))
              /\ handles'[h].version =
                   getLatestVersion(table, "project", ProjectId)]_vars

ReplayDeterministicWitness ==
  \E h \in ReaderHandles :
     /\ handles[h].state.id # ""
     /\ handles[h].state = Fold(initialState, ProjectEvents(table))
     /\ \E i, j \in DOMAIN table :
           /\ table[i].aggregate_type = "project"
           /\ table[j].aggregate_type = "project"
           /\ table[i].timestamp = 0
           /\ table[j].timestamp > 0
           /\ table[j].event_type # "ProjectRenamed"
           /\ handles[h].version = table[j].version

----------------------------------------------------------------------------
(* Properties of the broadcast *)

StoreCalled == budget' = budget - 1

Listens(c, projectId) == clients[c].registered /\ clients[c].projectId = projectId

\* C18: a call of append writes to a listener exactly when the append
\* succeeded, the stream type is project and the listener is registered for
\* the stream id; what is written is the serialized stored event.  A failed
\* append and an append to a workspace stream write to nobody, a listener
\* registered under the workspace's id included.
BroadcastIffProjectAppend ==
  [][StoreCalled =>
       \A c \in ClientIds :
          received'[c] =
             IF /\ storeCall'.error = ""
                /\ storeCall'.event[1].aggregate_type = "project"
                /\ Listens(c, storeCall'.event[1].aggregate_id)
                /\ clients[c].writable
             THEN Append(received[c], Serialize(storeCall'.saved[1]))
             ELSE received[c]]_vars

BroadcastIffProjectAppendWitness ==
  /\ storeCall.event # <<>>
  /\ storeCall.error = ""
  /\ LastCall.aggregate_type = "workspace"
  /\ \E c, d \in ClientIds :
        /\ Listens(c, WorkspaceId) /\ received[c] = <<>>
        /\ Listens(d, ProjectId) /\ Len(received[d]) = 1

FailedListeners(projectId) == {c \in ClientIds : Listens(c, projectId) /\ ~clients[c].writable}

\* C20: when append stores a project event while the write to some listeners
\* of the project throws, append still succeeds with the event stored last,
\* exactly the listeners whose write threw leave the registry, every other
\* listener of the project receives the event, and a client that is not
\* registered receives nothing, whatever is appended later.
DeliveryFailureIsolated ==
  [][/\ (/\ StoreCalled
         /\ storeCall'.event[1].aggregate_type = "project"
         /\ ~UniqueViolation(table, storeCall'.event[1])
         /\ FailedListeners(storeCall'.event[1].aggregate_id) # {})
        => /\ storeCall'.error = ""
           /\ Len(table') = Len(table) + 1
           /\ table'[Len(table')].version = storeCall'.event[1].version
           /\ table'[Len(table')].aggregate_id = storeCall'.event[1].aggregate_id
           /\ \A c \in ClientIds :
                 clients'[c] =
                    IF c \in FailedListeners(storeCall'.event[1].aggregate_id)
                    THEN NoClient ELSE clients[c]
           /\ \A c \in ClientIds :
                 (Listens(c, storeCall'.event[1].aggregate_id) /\ clients[c].writable)
                    => received'[c] =
                          Append(received[c], Serialize(storeCall'.saved[1]))
     /\ \A c \in ClientIds :
           (~clients[c].registered /\ ~clients'[c].registered)
              => received'[c] = received[c]]_vars

DeliveryFailureIsolatedWitness ==
  /\ storeCall.event # <<>>
  /\ storeCall.error = ""
  /\ LastCall.aggregate_type = "project"
  /\ Len(StreamSeq(table, <<"project", ProjectId>>)) = 3
  /\ \E c, d \in ClientIds :
        /\ clients[c] = NoClient /\ Len(received[c]) = 1
        /\ Listens(d, ProjectId) /\ Len(received[d]) = 3

----------------------------------------------------------------------------
(* Properties of a listener *)

\* the rows a step stores for a project, as broadcast writes them
NewFrames(projectId) ==
  LET new == SubSeq(table', Len(table) + 1, Len(table'))
      mine == StreamSeq(new, <<"project", projectId>>)
  IN [i \in DOMAIN mine |->
        [type |-> mine[i].event_type, data |-> mine[i].event_data,
         timestamp |-> mine[i].timestamp, version |-> mine[i].version]]

\* the last n events of a project stream, as broadcast writes them
LastFrames(projectId, n) ==
  LET E == getEvents(table, "project", projectId)
  IN [i \in 1..n |-> Serialize(E[Len(E) - n + i])]

\* C19: a listener starts with nothing written to it, whatever is stored
\* when it registers; while it stays registered with a working connection,
\* each step writes to it exactly the events the step stores for its project,
\* in the order they are stored.  So what a registered listener has received
\* is the events its project's stream gained since it registered, each once,
\* with strictly increasing versions.
ListenerReceivesSinceRegistered ==
  /\ [][\A c \in ClientIds :
           /\ (~clients[c].registered /\ clients'[c].registered)
                 => (received'[c] = <<>> /\ table' = table)
           /\ (clients[c].registered /\ clients[c].writable /\ clients'[c].registered)
                 => received'[c] = received[c] \o NewFrames(clients[c].projectId)]_vars
  /\ [](\A c \in ClientIds :
           clients[c].registered =>
              /\ Len(received[c]) <=
                    Len(getEvents(table, "project", clients[c].projectId))
              /\ received[c] = LastFrames(clients[c].projectId, Len(received[c]))
              /\ \A i, j \in DOMAIN received[c] :
                    i < j => received[c][i].version < received[c][j].version)

ListenerReceivesSinceRegisteredWitness ==
  \E c \in ClientIds :
     /\ Listens(c, ProjectId)
     /\ Len(received[c]) >= 2
     /\ Len(getEvents(table, "project", ProjectId)) >
           Len(getEvents(SeedPair.S.table, "project", ProjectId)) + Len(received[c])

----------------------------------------------------------------------------
(* Properties of the history queries *)

Asked(q, op) ==
  /\ handles'[q] # handles[q]
  /\ handles'[q].op = op
  /\ handles'[q].limit = NoLimit

\* the project streams that hold a ProjectCreated naming the workspace
ProjectsOf(workspaceId) ==
  {table[i].aggregate_id :
     i \in {j \in DOMAIN table : /\ table[j].aggregate_type = "project"
                                 /\ table[j].event_type = "ProjectCreated"
                                 /\ table[j].event_data.workspace_id = workspaceId}}

WorkspaceHistory(workspaceId) ==
  {rowToEvent(table, i) :
     i \in {j \in DOMAIN table :
              \/ /\ table[j].aggregate_type = "workspace"
                 /\ table[j].aggregate_id = workspaceId
              \/ /\ table[j].aggregate_type = "project"
                 /\ table[j].aggregate_id \in ProjectsOf(workspaceId)}}

\* C21: getWorkspaceEvents(w) without a limit returns, each once, the events
\* of the workspace stream of w and of every project stream that holds a
\* ProjectCreated naming w, deleted projects included and the projects of
\* other workspaces left out, in non-decreasing timestamp order.
WorkspaceEventsComplete ==
  [][\A q \in QueryHandles :
        Asked(q, "getWorkspaceEvents") =>
           /\ Elements(handles'[q].rows) = WorkspaceHistory(handles'[q].workspaceId)
           /\ Len(handles'[q].rows) =
                 Cardinality(WorkspaceHistory(handles'[q].workspaceId))
           /\ \A i, j \in DOMAIN handles'[q].rows :
                 i < j => handles'[q].rows[i].timestamp <=
                             handles'[q].rows[j].timestamp]_vars

WorkspaceEventsCompleteWitness ==
  \E q \in QueryHandles :
     /\ handles[q].op = "getWorkspaceEvents"
     /\ handles[q].limit = NoLimit
     /\ handles[q].workspaceId = WorkspaceId
     /\ handles[q].rows = getWorkspaceEvents(table, WorkspaceId, NoLimit, "desc")
     /\ \E i, j, k \in DOMAIN handles[q].rows :
           /\ handles[q].rows[i].event_type = "ProjectDeleted"
           /\ handles[q].rows[j].aggregate_type = "workspace"
           /\ handles[q].rows[k].timestamp > handles[q].rows[j].timestamp
           /\ handles[q].rows[i].timestamp > 0
           /\ j < i
     /\ \E i \in DOMAIN table : table[i].aggregate_id = OtherProjectId
     /\ \A i \in DOMAIN handles[q].rows :
           handles[q].rows[i].aggregate_id # OtherProjectId

CardHistory(projectId, cardId) ==
  {rowToEvent(table, i) :
     i \in {j \in DOMAIN table :
              /\ table[j].aggregate_type = "project"
              /\ table[j].aggregate_id = projectId
              /\ \/ table[j].event_data.card_id = cardId
                 \/ table[j].event_data.depends_on_card_id = cardId}}

\* C22: getCardEvents(p, c) without a limit returns, each once, the events of
\* the project stream p whose payload names c as card_id or as
\* depends_on_card_id, and of any two returned events the one with the higher
\* version comes earlier.
CardEventsNewestFirst ==
  [][\A q \in QueryHandles :
        Asked(q, "getCardEvents") =>
           /\ Elements(handles'[q].rows) =
                 CardHistory(handles'[q].projectId, handles'[q].cardId)
           /\ Len(handles'[q].rows) =
                 Cardinality(CardHistory(handles'[q].projectId, handles'[q].cardId))
           /\ \A i, j \in DOMAIN handles'[q].rows :
                 i < j => handles'[q].rows[i].version >
                             handles'[q].rows[j].version]_vars

----------------------------------------------------------------------------
(* Properties of the board commands *)

ProjectDeletedStored ==
  \E i \in DOMAIN table : /\ table[i].aggregate_type = "project"
                          /\ table[i].aggregate_id = ProjectId
                          /\ table[i].event_type = "ProjectDeleted"

\* C23: a delete() that completes has appended exactly one event, a
\* ProjectDeleted, and has changed nothing of the projection but the deleted
\* flag.  A handle that has folded a ProjectDeleted does not exist, and no
\* later command, stored event or load makes it exist again; whoever loads a
\* stream that holds a ProjectDeleted gets a project that does not exist.
DeleteIsSoftAndFinal ==
  /\ [](\A h \in ProjectHandles :
           /\ Finished(h, "delete") =>
                 /\ Len(hist[h].emitted) = 1
                 /\ hist[h].emitted[1].event_type = "ProjectDeleted"
                 /\ handles[h].state = [hist[h].pre EXCEPT !.deleted = TRUE]
           /\ handles[h].state.deleted => ~exists(handles[h])
           /\ ProjectDeletedStored => ~exists(loadProject(table, ProjectId)))
  /\ [][\A h \in ProjectHandles :
           ~exists(handles[h]) /\ handles[h].state.deleted
              => ~exists(handles'[h]) /\ handles'[h].state.deleted]_vars

DeleteIsSoftAndFinalWitness ==
  \E h \in ProjectHandles :
     /\ ProjectDeletedStored
     /\ ~exists(handles[h])
     /\ hist[h].cmd.op \in {"rename", "addCard", "addColumn"}
     /\ handles[h].result = "ok"
     /\ hist[h].pre.deleted
     /\ Len(handles[h].state.cards) = 2

CardOf(state, cardId) == CHOOSE c \in Elements(state.cards) : c.id = cardId

NoDuplicates(s) == \A i, j \in DOMAIN s : i # j => s[i] # s[j]

\* C24: an addDependency(a, b) that completes when a already depends on b
\* has appended one DependencyAdded and left the projection as it was; no
\* dependency list of a projection, of a handle or of a load of the stream,
\* holds an id twice.
AddDependencyIdempotent ==
  \A h \in DOMAIN handles :
     /\ (/\ Finished(h, "addDependency")
         /\ DependsOn(CardOf(hist[h].pre, hist[h].cmd.cardId),
                      hist[h].cmd.dependsOnCardId))
           => /\ Len(hist[h].emitted) = 1
              /\ hist[h].emitted[1].event_type = "DependencyAdded"
              /\ hist[h].emitted[1].event_data.card_id = hist[h].cmd.cardId
              /\ hist[h].emitted[1].event_data.depends_on_card_id =
                    hist[h].cmd.dependsOnCardId
              /\ handles[h].state = hist[h].pre
     /\ \A c \in Elements(handles[h].state.cards) : NoDuplicates(c.dependencies)
     /\ \A c \in Elements(loadProject(table, ProjectId).state.cards) :
           NoDuplicates(c.dependencies)

AddDependencyIdempotentWitness ==
  \E h \in DOMAIN handles :
     /\ Finished(h, "addDependency")
     /\ DependsOn(CardOf(hist[h].pre, hist[h].cmd.cardId),
                  hist[h].cmd.dependsOnCardId)
     /\ Cardinality({i \in DOMAIN table :
                       /\ table[i].event_type = "DependencyAdded"
                       /\ table[i].event_data.card_id = hist[h].cmd.cardId
                       /\ table[i].event_data.depends_on_card_id =
                             hist[h].cmd.dependsOnCardId}) >= 2

CmdRemoveDependency(cardId, dependsOnCardId) ==
  [NoCmd EXCEPT !.op = "removeDependency", !.cardId = cardId,
                !.dependsOnCardId = dependsOnCardId]

\* C25: on a handle that is running no command, removeDependency(a, b) for a
\* card a of the projection and any b (a dependency of a, another card, a
\* itself or the id of no card) succeeds and stores one more event; a
\* removeDependency that has completed has appended exactly one
\* DependencyRemoved naming a and b, and when b was no dependency of a the
\* projection is the one before.
RemoveDependencyAlwaysSucceeds ==
  \A h \in DOMAIN handles :
     /\ handles[h].pending = <<>> =>
           \A a \in CardIds(h) \ {UnknownId}, b \in CardIds(h) :
              \E r \in {Invoke(Sys, handles[h], CmdRemoveDependency(a, b))} :
                 /\ r.H.result = "ok"
                 /\ Len(r.S.table) = Len(table) + 1
                 /\ r.S.table[Len(r.S.table)].event_type = "DependencyRemoved"
     /\ Finished(h, "removeDependency") =>
           /\ Len(hist[h].emitted) = 1
           /\ hist[h].emitted[1].event_type = "DependencyRemoved"
           /\ hist[h].emitted[1].event_data.card_id = hist[h].cmd.cardId
           /\ hist[h].emitted[1].event_data.depends_on_card_id =
                 hist[h].cmd.dependsOnCardId
           /\ ~DependsOn(CardOf(hist[h].pre, hist[h].cmd.cardId),
                         hist[h].cmd.dependsOnCardId)
                 => handles[h].state = hist[h].pre

RemoveDependencyAlwaysSucceedsWitness ==
  \E h \in DOMAIN handles :
     /\ Finished(h, "removeDependency")
     /\ ~MapHas(hist[h].pre.cards, hist[h].cmd.dependsOnCardId)
     /\ handles[h].state = hist[h].pre
     /\ \E c \in Elements(handles[h].state.cards) : c.dependencies # <<>>

AsEvent(e) ==
  [event_type |-> e.event_type, event_data |-> e.event_data, timestamp |-> 0]

\* C26: an updateCard that completes has appended one CardUpdated; the card
\* gets the title and the description the command carries and keeps the one
\* it does not carry, keeps its column, position and dependencies; every
\* other card and every column are as before, and replaying the event on the
\* state before gives the same projection.
UpdateCardFrame ==
  \A h \in ProjectHandles :
     Finished(h, "updateCard") =>
        LET cmd == hist[h].cmd
            old == CardOf(hist[h].pre, cmd.cardId)
            new == CardOf(handles[h].state, cmd.cardId)
        IN /\ Len(hist[h].emitted) = 1
           /\ hist[h].emitted[1].event_type = "CardUpdated"
           /\ new.title = IF cmd.title = Undef THEN old.title ELSE cmd.title
           /\ new.description =
                 IF cmd.description = Undef THEN old.description
                 ELSE cmd.description
           /\ new.column_id = old.column_id
           /\ new.position = old.position
           /\ new.dependencies = old.dependencies
           /\ Len(handles[h].state.cards) = Len(hist[h].pre.cards)
           /\ \A i \in DOMAIN hist[h].pre.cards :
                 hist[h].pre.cards[i].id # cmd.cardId =>
                    handles[h].state.cards[i] = hist[h].pre.cards[i]
           /\ handles[h].state.columns = hist[h].pre.columns
           /\ applyEvent(hist[h].pre, AsEvent(hist[h].emitted[1])) = handles[h].state

UpdateCardFrameWitness ==
  \E h \in ProjectHandles :
     /\ Finished(h, "updateCard")
     /\ hist[h].cmd.title = Undef
     /\ hist[h].cmd.description = "d"
     /\ CardOf(handles[h].state, hist[h].cmd.cardId).title = "t"
     /\ CardOf(handles[h].state, hist[h].cmd.cardId).description = "d"
     /\ CardOf(handles[h].state, hist[h].cmd.cardId).dependencies # <<>>

----------------------------------------------------------------------------
(* Properties of the source tag *)

UntagTable(t) == [i \in DOMAIN t |-> [t[i] EXCEPT !.event_data.source = Undef]]

UntagReceived(rc) ==
  [c \in DOMAIN rc |->
     [i \in DOMAIN rc[c] |-> [rc[c][i] EXCEPT !.data.source = Undef]]]

UntagSys(S) ==
  [S EXCEPT !.table = UntagTable(@), !.received = UntagReceived(@)]

UntagCmd(c) == [c EXCEPT !.source = Undef]

UntagHandle(H) ==
  [H EXCEPT !.pending = [i \in DOMAIN H.pending |-> UntagCmd(H.pending[i])]]

UntagWorld(r) == [S |-> UntagSys(r.S), H |-> UntagHandle(r.H)]

SysNext == [table |-> table', clients |-> clients', received |-> received',
            uuid |-> uuid', clock |-> clock']

\* C27: a command run with a source tag and the same command run without one
\* on the same history with its tags erased end in the same projection,
\* version, result and remaining steps, and store the same events up to the
\* source field of the payload; so does each further step of a cascade.  A
\* stream and the same stream with its tags erased replay to the same
\* projection.  Hence a command sequence run with tags and run without them
\* gives equal projections, event types and versions.
SourceTagInert ==
  /\ [](loadProject(UntagTable(table), ProjectId).state =
           loadProject(table, ProjectId).state)
  /\ [][\A h \in ProjectHandles :
           /\ (/\ handles[h].pending = <<>>
               /\ budget' = budget - 1
               /\ storeCall' = storeCall
               /\ handles'[h].version # handles[h].version)
                 => UntagWorld([S |-> SysNext, H |-> handles'[h]]) =
                       Invoke(UntagSys(Sys), UntagHandle(handles[h]),
                              UntagCmd(hist'[h].cmd))
           /\ (handles[h].pending # <<>> /\ handles'[h] # handles[h])
                 => UntagWorld([S |-> SysNext, H |-> handles'[h]]) =
                       RunStep(UntagSys(Sys), UntagHandle(handles[h]))]_vars

SourceTagInertWitness ==
  \E h \in ProjectHandles :
     /\ handles[h].pending # <<>>
     /\ hist[h].cmd.op = "deleteCard"
     /\ hist[h].cmd.source = "mcp"
     /\ table[Len(table)].event_type = "DependencyRemoved"
     /\ table[Len(table)].event_data.source = "mcp"
     /\ \E i \in DOMAIN table :
           table[i].event_type = "CardUpdated" /\ table[i].event_data.source = "mcp"

----------------------------------------------------------------------------
(* Properties of the columns *)

\* C28: an addColumn without a position that completes has given the new
\* column the number of columns there were as its position, and the new
\* column is the last column of toProject().
AddColumnAtEnd ==
  \A h \in ProjectHandles :
     (Finished(h, "addColumn") /\ hist[h].cmd.position = NoPosition) =>
        /\ Len(hist[h].emitted) = 1
        /\ hist[h].emitted[1].event_type = "ColumnAdded"
        /\ hist[h].emitted[1].event_data.position = Len(hist[h].pre.columns)
        /\ toProject(handles[h]).columns[Len(handles[h].state.columns)].id =
              hist[h].emitted[1].event_data.column_id

----------------------------------------------------------------------------
(* Properties of the value append returns *)

\* C29: the event a successful append returns is the event getEvents returns
\* for that stream and version: same sequence id, timestamp, version, type and
\* payload.
AppendReturnsStored ==
  (storeCall.event # <<>> /\ storeCall.error = "") =>
     \E e \in Elements(getEvents(table, LastCall.aggregate_type,
                                 LastCall.aggregate_id)) :
        /\ e.version = LastCall.version
        /\ storeCall.saved[1] = e

----------------------------------------------------------------------------
(* Properties of the requests *)

\* C31: with every command made by a request of the routes, whatever the
\* order in which the steps of the requests run, the project stream, when it
\* is not empty, begins with a ProjectCreated at version 1, and a
\* ProjectDeleted is the last event of the stream: no event of a higher
\* version and no later row of the stream follows it.
DeletedStreamIsClosed ==
  /\ \A n \in DOMAIN getEvents(table, "project", ProjectId) :
        /\ n = 1 =>
              /\ getEvents(table, "project", ProjectId)[n].event_type =
                    "ProjectCreated"
              /\ getEvents(table, "project", ProjectId)[n].version = 1
        /\ getEvents(table, "project", ProjectId)[n].event_type = "ProjectDeleted"
              => n = Len(getEvents(table, "project", ProjectId))
  /\ \A i, j \in StreamRows(table, <<"project", ProjectId>>) :
        table[i].event_type = "ProjectDeleted" => j <= i

\* a request that loaded the project before it was deleted has made its
\* command after the deletion and was refused
DeletedStreamIsClosedWitness ==
  \E h \in HttpHandles :
     /\ ProjectDeletedStored
     /\ handles[h].result = ConcurrencyConflict
     /\ hist[h].cmd.op \in {"rename", "addCard", "moveColumn"}
     /\ exists(handles[h])
     /\ ~exists(loadProject(table, ProjectId))

----------------------------------------------------------------------------
(* Properties of the positions *)

\* the command that handle h has made in this step
Made(h, op) ==
  /\ budget' = budget - 1
  /\ handles'[h].version # handles[h].version
  /\ hist'[h].cmd.op = op

ColumnOf(state, columnId) == CHOOSE c \in Elements(state.columns) : c.id = columnId

\* every column but columnId and every card but cardId is in after as it was
\* in before
OthersKept(before, after, columnId, cardId) ==
  /\ \A col \in Elements(before.columns) :
        col.id # columnId => col \in Elements(after.columns)
  /\ \A card \in Elements(before.cards) :
        card.id # cardId => card \in Elements(after.cards)
  /\ \A col \in Elements(after.columns) :
        col.id # columnId => col \in Elements(before.columns)
  /\ \A card \in Elements(after.cards) :
        card.id # cardId => card \in Elements(before.cards)

\* C32: a command that sets a position changes only the column or card it
\* names.  moveColumn(id, p) leaves p itself as the position of column id;
\* addColumn, moveColumn, addCard and moveCard leave every other column and
\* every other card as it was, position included; and the command succeeds
\* whatever position it is given, also one that a sibling already has.
PositionsTouchOnlyNamed ==
  [][\A h \in ProjectHandles :
        /\ budget' = budget - 1 => /\ handles'[h].result = "ok"
                                   /\ handles'[h].version = handles[h].version + 1
        /\ Made(h, "moveColumn") =>
              /\ ColumnOf(handles'[h].state, hist'[h].cmd.columnId).position =
                    hist'[h].cmd.position
              /\ OthersKept(handles[h].state, handles'[h].state,
                            hist'[h].cmd.columnId, NoId)
        /\ Made(h, "addColumn") =>
              /\ uuid' \notin {col.id : col \in Elements(handles[h].state.columns)}
              /\ OthersKept(handles[h].state, handles'[h].state, uuid', NoId)
        /\ Made(h, "addCard") =>
              /\ uuid' \notin {card.id : card \in Elements(handles[h].state.cards)}
              /\ OthersKept(handles[h].state, handles'[h].state, NoId, uuid')
        /\ Made(h, "moveCard") =>
              OthersKept(handles[h].state, handles'[h].state, NoId,
                         hist'[h].cmd.cardId)]_vars

\* a column was moved to the position another column has, and a card was
\* then put at the position another card of its column has
PositionsTouchOnlyNamedWitness ==
  \E h \in ProjectHandles :
     /\ Finished(h, "addCard")
     /\ hist[h].cmd.position = 0
     /\ \E a, b \in Elements(handles[h].state.columns) :
           a.id # b.id /\ a.position = b.position
     /\ \E a, b \in Elements(handles[h].state.cards) :
           a.id # b.id /\ a.column_id = b.column_id /\ a.position = b.position
     /\ \E i \in DOMAIN table : table[i].event_type = "ColumnMoved"

\* the event the step has stored
StoredNow == table'[Len(table')]

\* C33: addCard without a position stores, in the event and in the card, the
\* number of cards the target column holds when the command is made;
\* moveCard without a position stores the number of cards of the destination
\* column other than the moving card, which for a move within the card's own
\* column is the number of cards of that column less one.
DefaultCardPositions ==
  [][\A h \in ProjectHandles :
        /\ Made(h, "addCard") /\ hist'[h].cmd.position = NoPosition =>
              /\ StoredNow.event_type = "CardAdded"
              /\ StoredNow.event_data.position =
                    Cardinality(CardsIn(handles[h].state, hist'[h].cmd.columnId))
              /\ CardOf(handles'[h].state, uuid').position =
                    StoredNow.event_data.position
        /\ Made(h, "moveCard") /\ hist'[h].cmd.position = NoPosition =>
              /\ StoredNow.event_type = "CardMoved"
              /\ StoredNow.event_data.position =
                    Cardinality(CardsIn(handles[h].state, hist'[h].cmd.columnId)
                                \ {CardOf(handles[h].state, hist'[h].cmd.cardId)})
              /\ CardOf(handles'[h].state, hist'[h].cmd.cardId).position =
                    StoredNow.event_data.position
              /\ CardOf(handles[h].state, hist'[h].cmd.cardId).column_id =
                    hist'[h].cmd.columnId
                 => StoredNow.event_data.position =
                       Cardinality(CardsIn(handles[h].state,
                                           hist'[h].cmd.columnId)) - 1]_vars

\* a card was moved within its own column, which holds another card
DefaultCardPositionsWitness ==
  \E h \in ProjectHandles :
     /\ Finished(h, "moveCard")
     /\ hist[h].cmd.position = NoPosition
     /\ CardOf(hist[h].pre, hist[h].cmd.cardId).column_id = hist[h].cmd.columnId
     /\ Cardinality(CardsIn(hist[h].pre, hist[h].cmd.columnId)) >= 2
     /\ CardOf(handles[h].state, hist[h].cmd.cardId).position =
           Cardinality(CardsIn(hist[h].pre, hist[h].cmd.columnId)) - 1
     /\ \E i \in DOMAIN table : /\ table[i].event_type = "CardAdded"
                                /\ table[i].version > 7

\* no stored event carries a position chosen by a caller: the card commands
\* are all made without a position, and no column was moved
OnlyDefaultPositions ==
  \A i \in DOMAIN table : table[i].event_type # "ColumnMoved"

\* C34: while every position is a default position, two cards of one column
\* never have the same position.
DefaultPositionsDistinct ==
  \A h \in ProjectHandles :
     OnlyDefaultPositions =>
        \A a, b \in Elements(handles[h].state.cards) :
           a.id # b.id /\ a.column_id = b.column_id => a.position # b.position

----------------------------------------------------------------------------
(* Properties of the fold *)

EventTypes ==
  {"ProjectCreated", "ProjectRenamed", "ProjectDescriptionUpdated",
   "ProjectDeleted", "ColumnAdded", "ColumnRenamed", "ColumnMoved",
   "ColumnDeleted", "CardAdded", "CardUpdated", "CardMoved", "CardDeleted",
   "DependencyAdded", "DependencyRemoved"}

\* the event is of no declared type, or changes a column or a card that the
\* projection does not hold
Inapplicable(state, event) ==
  \/ event.event_type \notin EventTypes
  \/ /\ event.event_type \in {"ColumnRenamed", "ColumnMoved"}
     /\ event.event_data.column_id \notin
           {col.id : col \in Elements(state.columns)}
  \/ /\ event.event_type \in {"CardUpdated", "CardMoved", "DependencyAdded",
                              "DependencyRemoved"}
     /\ event.event_data.card_id \notin {card.id : card \in Elements(state.cards)}

\* the projection of the stored stream
Projection(t) == loadProject(t, ProjectId).state

\* what the fold makes of event, appended to a stream of projection before
Applied(before, after, event) ==
  /\ Inapplicable(before, event) => after = before
  /\ (/\ event.event_type = "DependencyAdded"
      /\ ~Inapplicable(before, event)
      /\ ~DependsOn(CardOf(before, event.event_data.card_id),
                    event.event_data.depends_on_card_id))
        => CardOf(after, event.event_data.card_id).dependencies =
              Append(CardOf(before, event.event_data.card_id).dependencies,
                     event.event_data.depends_on_card_id)
  /\ (event.event_type = "CardMoved" /\ ~Inapplicable(before, event))
        => CardOf(after, event.event_data.card_id).column_id =
              event.event_data.column_id

\* C35: the fold gives a projection for every stored stream.  An event of an
\* undeclared type, and a rename, move, update or dependency event that names
\* a column or card the projection does not hold, leave the projection as it
\* was.  The rules of the commands are not applied to stored events: a
\* dependency of a card on itself or on a card that does not exist is added,
\* and a card is moved to a column that does not exist.  A handle that loads
\* holds the projection.
FoldIgnoresInapplicable ==
  [][/\ Len(table') > Len(table) =>
          Applied(Projection(table), Projection(table'), storeCall'.event[1])
     /\ \A h \in ProjectHandles :
           handles'[h] # handles[h] => handles'[h].state = Projection(table)]_vars

\* the handle has loaded a stream that holds an event of an undeclared type,
\* an event for a column that does not exist and a dependency of card 4 on
\* itself
FoldIgnoresInapplicableWitness ==
  \E h \in ProjectHandles :
     /\ handles[h].version = getLatestVersion(table, "project", ProjectId)
     /\ \E i, j, k \in DOMAIN table :
           /\ table[i].event_type = "CardArchived"
           /\ table[j].event_type = "ColumnMoved"
           /\ table[k].event_type = "DependencyAdded"
           /\ table[k].event_data.card_id = 4
           /\ table[k].event_data.depends_on_card_id = 4
     /\ DependsOn(CardOf(handles[h].state, 4), 4)
     /\ Len(handles[h].state.columns) = 3

----------------------------------------------------------------------------
(* Properties of the limit of the history queries *)

\* the m most recent of the events all: its last m when it is ordered oldest
\* first, its first m when it is ordered newest first
MostRecent(all, m, op) ==
  IF op = "getWorkspaceEvents" THEN SubSeq(all, Len(all) - m + 1, Len(all))
  ELSE SubSeq(all, 1, m)

\* rows is what the limit leaves of the events all
Limited(all, rows, limit, op) ==
  IF limit = NoLimit THEN rows = all
  ELSE /\ Len(rows) <= limit[1]
       /\ rows = MostRecent(all, IF limit[1] < Len(all) THEN limit[1] ELSE Len(all),
                            op)

\* C36: a query given the limit k returns the min(k, n) most recent of its n
\* matching events, the last ones of the oldest-first workspace history and
\* the first ones of the newest-first card history, and never more than k
\* events; a query given no limit returns all n.
LimitKeepsMostRecent ==
  [][\A q \in QueryHandles :
        handles'[q] # handles[q] =>
           \E tie \in TieOrders :
              Limited(IF handles'[q].op = "getWorkspaceEvents"
                      THEN getWorkspaceEvents(table, handles'[q].workspaceId,
                                              NoLimit, tie)
                      ELSE getCardEvents(table, handles'[q].projectId,
                                         handles'[q].cardId, NoLimit, tie),
                      handles'[q].rows, handles'[q].limit, handles'[q].op)]_vars

----------------------------------------------------------------------------
(* Properties of the version counter *)

\* C37: the version counter of a handle is the version of the last event
\* folded into its state, 0 when none was, in every state, also after a
\* command of the handle has failed with the concurrency conflict.
VersionIsLastFolded ==
  \A h \in DOMAIN handles : handles[h].version = hist[h].folded

====
